---- MODULE Spec2Model ----
(***************************************************************************)
(* A model of bodgit/gc: the GameCube memory card image format, its        *)
(* Writer (Create / Write / Close), its Reader (fs.FS lookup, ReadDir,     *)
(* File.Open) and the checksum engine.                                     *)
(*                                                                         *)
(* Byte strings are kept run-length encoded: a sequence of <<b, n>> runs,  *)
(* n >= 1, and of repeats of a longer string.  Equal encodings stand for   *)
(* equal byte strings, and the operations below build a string the same    *)
(* way whenever its bytes are the same.                                    *)
(***************************************************************************)
EXTENDS Integers, Sequences, FiniteSets, TLC

(***************************************************************************)
(* Program constants.                                                      *)
(***************************************************************************)
blockSize == 8192
reservedBlocks == 5
maxEntries == 127
directoryReserved1Size == 58
entryReserved1Offset == 6
entryReserved2Offset == 58
entryReserved2Size == 2
headerReserved1Size == 4
headerReserved2Offset == 38
headerReserved2Size == 468
headerReserved3Offset == 512
headerReserved3Size == 7680
headerChecksumSpan == 508
blockMapSlots == 4091
hashSize == 2
checksums == 2
master == 0
backup == 1
copies == 2
MemoryCard59 == 4
MemoryCard123 == 8
MemoryCard251 == 16
MemoryCard507 == 32
MemoryCard1019 == 64
MemoryCard2043 == 128
EncodingANSI == 0
EncodingSJIS == 1
serialLength == 12
lengthFZero == 32768
lengthPSO == 24576
entrySize == 64

Byte == 0..255

Min(a, b) == IF a < b THEN a ELSE b

(***************************************************************************)
(* Run-length encoded byte strings.  An item is a run <<b, n>> of n copies *)
(* of the byte b, or a repeat <<x, n, len>> of n >= 2 copies of the string *)
(* x of len bytes (how the stretches of unset directory entries are kept). *)
(***************************************************************************)
Run(b, n) == IF n <= 0 THEN <<>> ELSE << <<b, n>> >>

\* Op applied to the value of x, evaluated once.
With(arg0, Op0(_)) == CHOOSE res0 \in {Op0(val0) : val0 \in {arg0}} : TRUE

ItemLen(it) == IF Len(it) = 2 THEN it[2] ELSE it[2] * it[3]

\* n copies of the string x of len bytes.
Rep(x, n, len) ==
  IF n <= 0 \/ len = 0 THEN <<>> ELSE IF n = 1 THEN x ELSE << <<x, n, len>> >>

\* Concatenation, merging the two runs that meet when they hold one byte.
Cat(x, y) ==
  With(<<x, y>>, LAMBDA p :
    IF p[1] = <<>> THEN p[2]
    ELSE IF p[2] = <<>> THEN p[1]
    ELSE IF /\ Len(p[1][Len(p[1])]) = 2 /\ Len(p[2][1]) = 2
            /\ p[1][Len(p[1])][1] = p[2][1][1]
         THEN SubSeq(p[1], 1, Len(p[1]) - 1)
              \o << <<p[2][1][1], p[1][Len(p[1])][2] + p[2][1][2]>> >>
              \o SubSeq(p[2], 2, Len(p[2]))
         ELSE p[1] \o p[2])

\* The recursions over items halve their range, which keeps them shallow on
\* the long encodings of whole records.
RECURSIVE BLenRange(_, _, _)
BLenRange(x, lo, hi) ==
  IF lo > hi THEN 0
  ELSE IF lo = hi THEN ItemLen(x[lo])
  ELSE LET mid == (lo + hi) \div 2
       IN BLenRange(x, lo, mid) + BLenRange(x, mid + 1, hi)

\* len(b)
BLen(x) == With(x, LAMBDA v : BLenRange(v, 1, Len(v)))

RECURSIVE BTakeRange(_, _, _, _)
BTakeRange(x, lo, hi, n) ==
  IF n <= 0 \/ lo > hi THEN <<>>
  ELSE IF lo = hi
       THEN (IF n >= ItemLen(x[lo]) THEN << x[lo] >>
             ELSE IF Len(x[lo]) = 2 THEN << <<x[lo][1], n>> >>
             ELSE Cat(Rep(x[lo][1], n \div x[lo][3], x[lo][3]),
                      BTakeRange(x[lo][1], 1, Len(x[lo][1]), n % x[lo][3])))
  ELSE LET mid  == (lo + hi) \div 2
           left == BLenRange(x, lo, mid)
       IN IF n <= left THEN BTakeRange(x, lo, mid, n)
          ELSE SubSeq(x, lo, mid) \o BTakeRange(x, mid + 1, hi, n - left)

\* b[:n] (all of b when it is shorter)
BTake(x, n) == With(x, LAMBDA v : BTakeRange(v, 1, Len(v), n))

RECURSIVE BDropRange(_, _, _, _)
BDropRange(x, lo, hi, n) ==
  IF lo > hi THEN <<>>
  ELSE IF n <= 0 THEN SubSeq(x, lo, hi)
  ELSE IF lo = hi
       THEN (IF n >= ItemLen(x[lo]) THEN <<>>
             ELSE IF Len(x[lo]) = 2 THEN << <<x[lo][1], x[lo][2] - n>> >>
             ELSE IF n % x[lo][3] = 0
                  THEN Rep(x[lo][1], x[lo][2] - (n \div x[lo][3]), x[lo][3])
             ELSE Cat(BDropRange(x[lo][1], 1, Len(x[lo][1]), n % x[lo][3]),
                      Rep(x[lo][1], x[lo][2] - (n \div x[lo][3]) - 1, x[lo][3])))
  ELSE LET mid  == (lo + hi) \div 2
           left == BLenRange(x, lo, mid)
       IN IF n >= left THEN BDropRange(x, mid + 1, hi, n - left)
          ELSE BDropRange(x, lo, mid, n) \o SubSeq(x, mid + 1, hi)

\* b[n:] (empty when b is shorter)
BDrop(x, n) == With(x, LAMBDA v : BDropRange(v, 1, Len(v), n))

\* x repeated n times.
Repeat(x, n) ==
  With(x, LAMBDA v :
    IF Len(v) = 1 /\ Len(v[1]) = 2 THEN Run(v[1][1], n * v[1][2])
    ELSE Rep(v, n, BLen(v)))

RECURSIVE FromBytesRange(_, _, _)
FromBytesRange(s, lo, hi) ==
  IF lo > hi THEN <<>>
  ELSE IF \A i \in lo..hi : s[i] = s[lo] THEN Run(s[lo], hi - lo + 1)
  ELSE LET mid == (lo + hi) \div 2
       IN Cat(FromBytesRange(s, lo, mid), FromBytesRange(s, mid + 1, hi))

\* The encoding of an explicit byte sequence.
FromBytes(s) == With(s, LAMBDA v : FromBytesRange(v, 1, Len(v)))

RECURSIVE ToBytesRange(_, _, _)
ToBytesRange(x, lo, hi) ==
  IF lo > hi THEN <<>>
  ELSE IF lo = hi
       THEN (IF Len(x[lo]) = 2 THEN [k \in 1..x[lo][2] |-> x[lo][1]]
             ELSE LET b == ToBytesRange(x[lo][1], 1, Len(x[lo][1]))
                  IN [k \in 1..ItemLen(x[lo]) |-> b[((k - 1) % x[lo][3]) + 1]])
  ELSE LET mid == (lo + hi) \div 2
       IN ToBytesRange(x, lo, mid) \o ToBytesRange(x, mid + 1, hi)

\* The explicit byte sequence of a (short) encoded string.
ToBytes(x) == With(x, LAMBDA v : ToBytesRange(v, 1, Len(v)))

RECURSIVE CatAllRange(_, _, _)
CatAllRange(xs, lo, hi) ==
  IF lo > hi THEN <<>>
  ELSE IF lo = hi THEN xs[lo]
  ELSE LET mid == (lo + hi) \div 2
       IN Cat(CatAllRange(xs, lo, mid), CatAllRange(xs, mid + 1, hi))

CatAll(xs) == With(xs, LAMBDA v : CatAllRange(v, 1, Len(v)))

\* Big-endian encodings of fixed-width unsigned integers.
U16(v) == FromBytes(<<v \div 256, v % 256>>)
ReadU16(s, off) == s[off + 1] * 256 + s[off + 2]

(***************************************************************************)
(* internal/hash: the 16-bit running-word digest.                          *)
(***************************************************************************)
\* Reset that starts at the low byte of the word.
DigestNewLow(inverted) == [inverted |-> inverted, crc |-> 0, pos |-> 0]

\* digest.Reset (and New / NewInverted, which Reset a fresh digest)
DigestNew(inverted) == [inverted |-> inverted, crc |-> 0, pos |-> 1]

\* What one run adds to crc in digest.Write's loop, n times
\* "crc += uint16(t) << (pos*8); pos = (pos+1) % 2" from position pos on,
\* summed in closed form modulo 2^16.
DigestRunSum(inverted, pos, b, n) ==
  LET t  == IF inverted THEN 255 - b ELSE b
      hi == IF pos = 1 THEN (n + 1) \div 2 ELSE n \div 2
      lo == n - hi
  IN ((256 * ((t * (hi % 256)) % 256)) + ((t * (lo % 65536)) % 65536)) % 65536

\* What the runs lo .. hi of p add to crc when their first byte is met at
\* position 0, and at position 1, and the parity of their length.
RECURSIVE DigestRangeSum(_, _, _, _)
DigestRangeSum(inverted, p, lo, hi) ==
  IF lo > hi THEN <<0, 0, 0>>
  ELSE IF lo = hi
       THEN (IF Len(p[lo]) = 2
             THEN << DigestRunSum(inverted, 0, p[lo][1], p[lo][2]),
                     DigestRunSum(inverted, 1, p[lo][1], p[lo][2]),
                     p[lo][2] % 2 >>
             ELSE LET t  == DigestRangeSum(inverted, p[lo][1], 1, Len(p[lo][1]))
                      n  == p[lo][2]
                      n1 == IF t[3] = 0 THEN n ELSE (n + 1) \div 2
                      n2 == n - n1
                  IN << ((((n1 % 65536) * t[1]) % 65536)
                         + (((n2 % 65536) * t[2]) % 65536)) % 65536,
                        ((((n1 % 65536) * t[2]) % 65536)
                         + (((n2 % 65536) * t[1]) % 65536)) % 65536,
                        (n * t[3]) % 2 >>)
  ELSE LET mid == (lo + hi) \div 2
           l   == DigestRangeSum(inverted, p, lo, mid)
           r   == DigestRangeSum(inverted, p, mid + 1, hi)
       IN << (l[1] + r[((0 + l[3]) % 2) + 1]) % 65536,
             (l[2] + r[((1 + l[3]) % 2) + 1]) % 65536,
             (l[3] + r[3]) % 2 >>

\* digest.Write: the bytes of p in order.
DigestWrite(d, p) ==
  With(p, LAMBDA v :
    With(DigestRangeSum(d.inverted, v, 1, Len(v)), LAMBDA t :
      [d EXCEPT !.crc = (d.crc + t[d.pos + 1]) % 65536,
                !.pos = (d.pos + t[3]) % 2]))

\* The body of digest.Write's loop, for the byte b.
digestStep(d, b) ==
  LET t == IF d.inverted THEN 255 - b ELSE b
  IN [d EXCEPT !.crc = (d.crc + t * (IF d.pos = 1 THEN 256 ELSE 1)) % 65536,
               !.pos = (d.pos + 1) % 2]

\* digest.Write's loop over p[lo .. hi], a plain sequence of bytes, in order.
RECURSIVE digestLoop(_, _, _, _)
digestLoop(d, p, lo, hi) ==
  IF lo > hi THEN d
  ELSE IF lo = hi THEN With(d, LAMBDA v : digestStep(v, p[lo]))
  ELSE With(digestLoop(d, p, lo, (lo + hi) \div 2), LAMBDA l :
         digestLoop(l, p, (lo + hi) \div 2 + 1, hi))

\* digest.Sum(nil)
DigestSum(d) == <<d.crc \div 256, d.crc % 256>>

\* checksum without the two comparisons against 0xFFFF.
checksumRaw(b) ==
  With(b, LAMBDA v :
    << DigestSum(DigestWrite(DigestNew(FALSE), v)),
       DigestSum(DigestWrite(DigestNew(TRUE), v)) >>)

\* checksum: the normal and the inverted digest of b, 0xFFFF clamped to 0.
checksum(b) ==
  With(b, LAMBDA v :
    LET normal   == DigestSum(DigestWrite(DigestNew(FALSE), v))
        inverted == DigestSum(DigestWrite(DigestNew(TRUE), v))
    IN << IF normal = <<255, 255>> THEN <<0, 0>> ELSE normal,
          IF inverted = <<255, 255>> THEN <<0, 0>> ELSE inverted >>)

(***************************************************************************)
(* Directory entries (the 64-byte .gci header).                            *)
(***************************************************************************)
Zeros(n) == [k \in 1..n |-> 0]

\* entry{}: Go's zero value.
zeroEntry ==
  [GameCode |-> Zeros(4), MakerCode |-> Zeros(2), BannerFormat |-> 0,
   Filename |-> Zeros(32), LastModified |-> Zeros(4),
   ImageDataOffset |-> Zeros(4), IconGfxFormat |-> 0, AnimationSpeed |-> 0,
   Permissions |-> 0, CopyCounter |-> 0, FirstBlock |-> 0, FileLength |-> 0,
   CommentAddress |-> Zeros(4)]

\* entry.isEmpty
isEmpty(e) ==
  LET e1 == e.GameCode = <<255, 255, 255, 255>>
      e2 == e.GameCode = <<0, 0, 0, 0>>
  IN e1 \/ e2

\* bytes.TrimRight(s, "\x00")
TrimRightZero(s) ==
  LET nz == {i \in 1..Len(s) : s[i] # 0}
  IN IF nz = {} THEN <<>>
     ELSE SubSeq(s, 1, CHOOSE i \in nz : \A j \in nz : j <= i)

\* entry.filename: the 32 stored bytes without their trailing zero bytes.
filename(e) == TrimRightZero(e.Filename)

\* binary.Read(r, binary.BigEndian, e) on 64 bytes: the blank fields are skipped.
ReadEntry(s) ==
  [GameCode |-> SubSeq(s, 1, 4), MakerCode |-> SubSeq(s, 5, 6),
   BannerFormat |-> s[8], Filename |-> SubSeq(s, 9, 40),
   LastModified |-> SubSeq(s, 41, 44), ImageDataOffset |-> SubSeq(s, 45, 48),
   IconGfxFormat |-> ReadU16(s, 48), AnimationSpeed |-> ReadU16(s, 50),
   Permissions |-> s[53], CopyCounter |-> s[54],
   FirstBlock |-> ReadU16(s, 54), FileLength |-> ReadU16(s, 56),
   CommentAddress |-> SubSeq(s, 61, 64)]

\* binary.Write(buf, binary.BigEndian, e): the blank fields are written as zeros.
entryWrite(e) ==
  CatAll(<< FromBytes(e.GameCode), FromBytes(e.MakerCode),
            Run(0, 1), Run(e.BannerFormat, 1), FromBytes(e.Filename),
            FromBytes(e.LastModified), FromBytes(e.ImageDataOffset),
            U16(e.IconGfxFormat), U16(e.AnimationSpeed),
            Run(e.Permissions, 1), Run(e.CopyCounter, 1),
            U16(e.FirstBlock), U16(e.FileLength),
            Run(0, entryReserved2Size), FromBytes(e.CommentAddress) >>)

\* entry.MarshalBinary: binary.Write, then 0xff into the two reserved spans.
entryMarshalBinary(e) ==
  CatAll(<< FromBytes(e.GameCode), FromBytes(e.MakerCode),
            Run(255, 1), Run(e.BannerFormat, 1), FromBytes(e.Filename),
            FromBytes(e.LastModified), FromBytes(e.ImageDataOffset),
            U16(e.IconGfxFormat), U16(e.AnimationSpeed),
            Run(e.Permissions, 1), Run(e.CopyCounter, 1),
            U16(e.FirstBlock), U16(e.FileLength),
            Run(255, entryReserved2Size), FromBytes(e.CommentAddress) >>)

(***************************************************************************)
(* Sparse arrays: a function on the indices whose element differs from the *)
(* array's default.  Kept canonical, so equal arrays are equal values.     *)
(***************************************************************************)
At(a, i, dflt) == IF i \in DOMAIN a THEN a[i] ELSE dflt

Put(a, i, v, dflt) ==
  IF v = dflt
  THEN [j \in (DOMAIN a) \ {i} |-> a[j]]
  ELSE [j \in (DOMAIN a) \cup {i} |-> IF j = i THEN v ELSE a[j]]

Empty == [j \in {} |-> 0]

(***************************************************************************)
(* directory: 127 entries, 0xff reserved span, update counter, checksums.  *)
(***************************************************************************)
EntryAt(d, i) == At(d.Entries, i, zeroEntry)

\* The directory a fresh card holds: no entry set, the given counter.
newDirectory(updateCounter) ==
  [Entries |-> Empty, UpdateCounter |-> updateCounter,
   Checksum |-> << <<0, 0>>, <<0, 0>> >>]

\* The entries lo .. hi-1 in order; a stretch of unset entries is the zero
\* entry's bytes repeated.
RECURSIVE EntriesMarshalRange(_, _, _)
EntriesMarshalRange(d, lo, hi) ==
  IF lo >= hi THEN <<>>
  ELSE IF (DOMAIN d.Entries) \cap (lo..(hi - 1)) = {}
       THEN Repeat(entryMarshalBinary(zeroEntry), hi - lo)
  ELSE IF lo + 1 = hi THEN entryMarshalBinary(EntryAt(d, lo))
  ELSE LET mid == (lo + hi) \div 2
       IN Cat(EntriesMarshalRange(d, lo, mid), EntriesMarshalRange(d, mid, hi))

\* directory.MarshalBinary
directoryMarshalBinary(d) ==
  With(d, LAMBDA v :
  CatAll(<< EntriesMarshalRange(v, 0, maxEntries), Run(255, directoryReserved1Size),
            U16(v.UpdateCounter),
            FromBytes(v.Checksum[1]), FromBytes(v.Checksum[2]) >>))

\* directory.generateChecksums: everything up to the checksum fields.
directoryGenerateChecksums(d) ==
  checksum(BTake(directoryMarshalBinary(d), blockSize - checksums * hashSize))

\* directory.checksum
directoryChecksum(d) ==
  With(d, LAMBDA v : [v EXCEPT !.Checksum = directoryGenerateChecksums(v)])

\* directory.isValid
directoryIsValid(d) == d.Checksum = directoryGenerateChecksums(d)

(***************************************************************************)
(* blockMap: checksums, counter, free blocks, last allocated block, links. *)
(***************************************************************************)
SlotAt(m, i) == At(m.Blocks, i, 0)

\* newBlockMap with the first usable block counted as allocated.
newBlockMapNext(updateCounter, freeBlocks) ==
  [Checksum |-> << <<0, 0>>, <<0, 0>> >>, UpdateCounter |-> updateCounter,
   FreeBlocks |-> freeBlocks, LastAllocatedBlock |-> reservedBlocks,
   Blocks |-> Empty]

\* newBlockMap
newBlockMap(updateCounter, freeBlocks) ==
  [Checksum |-> << <<0, 0>>, <<0, 0>> >>, UpdateCounter |-> updateCounter,
   FreeBlocks |-> freeBlocks, LastAllocatedBlock |-> reservedBlocks - 1,
   Blocks |-> Empty]

\* The slots lo .. hi-1 in order; a stretch of unset slots is a run of zeros.
RECURSIVE SlotsMarshalRange(_, _, _)
SlotsMarshalRange(m, lo, hi) ==
  IF lo >= hi THEN <<>>
  ELSE IF (DOMAIN m.Blocks) \cap (lo..(hi - 1)) = {} THEN Run(0, 2 * (hi - lo))
  ELSE IF lo + 1 = hi THEN U16(SlotAt(m, lo))
  ELSE LET mid == (lo + hi) \div 2
       IN Cat(SlotsMarshalRange(m, lo, mid), SlotsMarshalRange(m, mid, hi))

\* blockMap.MarshalBinary
blockMapMarshalBinary(m) ==
  With(m, LAMBDA v :
  CatAll(<< FromBytes(v.Checksum[1]), FromBytes(v.Checksum[2]),
            U16(v.UpdateCounter), U16(v.FreeBlocks), U16(v.LastAllocatedBlock),
            SlotsMarshalRange(v, 0, blockMapSlots) >>))

\* blockMap.generateChecksums: everything after the checksum fields.
blockMapGenerateChecksums(m) ==
  checksum(BDrop(blockMapMarshalBinary(m), checksums * hashSize))

\* blockMap.checksum
blockMapChecksum(m) ==
  With(m, LAMBDA v : [v EXCEPT !.Checksum = blockMapGenerateChecksums(v)])

\* blockMap.isValid
blockMapIsValid(m) == m.Checksum = blockMapGenerateChecksums(m)

(***************************************************************************)
(* The serial transform.  A uint64 is eight byte limbs, least significant  *)
(* first, so that every product stays small; arithmetic is modulo 2^64.    *)
(***************************************************************************)
multiply == <<109, 78, 198, 65>>   \* 1103515245 = 0x41C64E6D, low byte first
addition == <<57, 48>>             \* 12345 = 0x3039, low byte first
shiftWidth == 16
mask == 32767

LimbAt(a, i) == IF i >= 1 /\ i <= Len(a) THEN a[i] ELSE 0

\* Column k (from 1) of the schoolbook product a * m.
RECURSIVE MulColumn(_, _, _, _)
MulColumn(a, m, k, i) ==
  IF i > k THEN 0 ELSE LimbAt(a, i) * LimbAt(m, k - i + 1) + MulColumn(a, m, k, i + 1)

\* Limbs k .. 8 of a * m + c with carry in.
RECURSIVE MulAddFrom(_, _, _, _, _)
MulAddFrom(a, m, c, k, carry) ==
  IF k > 8 THEN <<>>
  ELSE LET t == MulColumn(a, m, k, 1) + LimbAt(c, k) + carry
       IN <<t % 256>> \o MulAddFrom(a, m, c, k + 1, t \div 256)

\* (rand*multiply + addition) >> shiftWidth, on uint64
lcgStep(rand) ==
  LET t == MulAddFrom(rand, multiply, addition, 1, 0)
  IN SubSeq(t, 3, 8) \o <<0, 0>>

\* rand &= mask
lcgMask(rand) == <<rand[1], rand[2] % 128, 0, 0, 0, 0, 0, 0>>

\* The byte added at each of the 12 positions, from seed rand on.
RECURSIVE serialDeltas(_, _)
serialDeltas(rand, i) ==
  IF i > serialLength THEN <<>>
  ELSE LET r1 == lcgStep(rand)
       IN <<r1[1]>> \o serialDeltas(lcgMask(lcgStep(r1)), i + 1)

\* A big-endian 8-byte field as limbs.
Limbs(be) == [i \in 1..8 |-> be[9 - i]]

\* computeSerial with the generator's increment added to every byte.
computeSerialBiased(flashID, formatTime) ==
  LET d == serialDeltas(Limbs(formatTime), 1)
  IN [i \in 1..serialLength |-> (flashID[i] + d[i] + addition[1]) % 256]

\* computeSerial: serial[i] = flashID[i] + byte(rand)
computeSerial(flashID, formatTime) ==
  LET d == serialDeltas(Limbs(formatTime), 1)
  IN [i \in 1..serialLength |-> (flashID[i] + d[i]) % 256]

\* extractFlashID with the subtraction left unreduced.
extractFlashIDWide(serial, formatTime) ==
  LET d == serialDeltas(Limbs(formatTime), 1)
  IN [i \in 1..serialLength |-> serial[i] - d[i]]

\* extractFlashID: flashID[i] = serial[i] - byte(rand)
extractFlashID(serial, formatTime) ==
  LET d == serialDeltas(Limbs(formatTime), 1)
  IN [i \in 1..serialLength |-> (serial[i] - d[i]) % 256]

(***************************************************************************)
(* header                                                                  *)
(***************************************************************************)
\* header.MarshalBinary: binary.Write, then 0xff into the reserved spans.
headerMarshalBinary(h) ==
  CatAll(<< FromBytes(h.Serial), FromBytes(h.FormatTime),
            FromBytes(h.CounterBias), FromBytes(h.Lang), FromBytes(h.Unknown),
            U16(h.DeviceID), U16(h.CardSize), U16(h.Encoding),
            Run(255, headerReserved2Size), U16(h.UpdateCounter),
            FromBytes(h.Checksum[1]), FromBytes(h.Checksum[2]),
            Run(255, headerReserved3Size) >>)

\* header.size
headerSize(h) == h.CardSize * 131072

\* header.blocks
headerBlocks(h) == h.CardSize * 16

\* header.generateChecksums
headerGenerateChecksums(h) ==
  checksum(BTake(headerMarshalBinary(h), headerChecksumSpan))

\* header.checksum
headerChecksum(h) == [h EXCEPT !.Checksum = headerGenerateChecksums(h)]

\* header.isValid
headerIsValid(h) == h.Checksum = headerGenerateChecksums(h)

(***************************************************************************)
(* memoryCard: header, two directories, two block maps, the usable blocks. *)
(* directory[1] / blockMap[1] is the master copy, [2] the backup.  blocks  *)
(* is sparse over 0 .. nblocks-1 with the blank block as default.          *)
(***************************************************************************)
NoCard == [none |-> TRUE]

blankBlock == Run(255, blockSize)

BlockAt(mc, i) == At(mc.blocks, i, blankBlock)

\* activeDirectory with the backup taken on equal counters as well.
activeDirectoryOnEqual(mc) ==
  IF mc.directory[backup + 1].UpdateCounter >= mc.directory[master + 1].UpdateCounter
  THEN backup + 1 ELSE master + 1

\* memoryCard.activeDirectory (index into directory: master + 1, backup + 1)
activeDirectory(mc) ==
  IF mc.directory[backup + 1].UpdateCounter > mc.directory[master + 1].UpdateCounter
  THEN backup + 1 ELSE master + 1

\* activeBlockMap with the comparison the other way round.
activeBlockMapFlipped(mc) ==
  IF mc.blockMap[backup + 1].UpdateCounter < mc.blockMap[master + 1].UpdateCounter
  THEN backup + 1 ELSE master + 1

\* memoryCard.activeBlockMap
activeBlockMap(mc) ==
  IF mc.blockMap[backup + 1].UpdateCounter > mc.blockMap[master + 1].UpdateCounter
  THEN backup + 1 ELSE master + 1

ActiveDir(mc) == mc.directory[activeDirectory(mc)]
ActiveMap(mc) == mc.blockMap[activeBlockMap(mc)]

\* memoryCard.size
size(mc) == headerSize(mc.header)

\* The indices of the non-empty entries of a directory.
NonEmpty(d) == {i \in DOMAIN d.Entries : ~isEmpty(d.Entries[i])}

\* memoryCard.count
count(mc) == Cardinality(NonEmpty(ActiveDir(mc)))

\* memoryCard.checksum: header, then each copy's directory and block map.
mcChecksum(mc) ==
  With(mc, LAMBDA v :
    [v EXCEPT !.header = headerChecksum(v.header),
              !.directory = << directoryChecksum(v.directory[1]),
                               directoryChecksum(v.directory[2]) >>,
              !.blockMap = << blockMapChecksum(v.blockMap[1]),
                              blockMapChecksum(v.blockMap[2]) >>])

\* memoryCard.isValid: "nil" or the first fault in the code's order.
isValid(card) ==
  With(card, LAMBDA mc :
  IF ~headerIsValid(mc.header) THEN "errBadHeaderChecksum"
  ELSE IF ~directoryIsValid(mc.directory[1]) THEN "errBadDirectoryChecksum"
  ELSE IF ~blockMapIsValid(mc.blockMap[1]) THEN "errBadBlockMapChecksum"
  ELSE IF ~directoryIsValid(mc.directory[2]) THEN "errBadDirectoryChecksum"
  ELSE IF ~blockMapIsValid(mc.blockMap[2]) THEN "errBadBlockMapChecksum"
  ELSE LET dd == mc.directory[master + 1].UpdateCounter
                 - mc.directory[backup + 1].UpdateCounter
           bd == mc.blockMap[master + 1].UpdateCounter
                 - mc.blockMap[backup + 1].UpdateCounter
       IN IF dd # 1 /\ dd # -1 THEN "errInvalidDirectoryCounters"
          ELSE IF bd # 1 /\ bd # -1 THEN "errInvalidBlockMapCounters"
          ELSE "nil")

\* validateCardSize
validateCardSize(capacity) ==
  IF capacity \in {MemoryCard59, MemoryCard123, MemoryCard251, MemoryCard507,
                   MemoryCard1019, MemoryCard2043}
  THEN "nil" ELSE "errInvalidCapacity"

\* validateEncoding with every code let through.
validateEncodingAny(encoding) == "nil"

\* validateEncoding
validateEncoding(encoding) ==
  IF encoding \in {EncodingANSI, EncodingSJIS} THEN "nil" ELSE "errInvalidEncoding"

\* The header newMemoryCard builds, before checksums.
newHeader(flashID, formatTime, capacity, encoding) ==
  [Serial |-> computeSerial(flashID, formatTime), FormatTime |-> formatTime,
   CounterBias |-> Zeros(4), Lang |-> Zeros(4),
   Unknown |-> Zeros(headerReserved1Size), DeviceID |-> 0,
   CardSize |-> capacity, Encoding |-> encoding, UpdateCounter |-> 65535,
   Checksum |-> << <<0, 0>>, <<0, 0>> >>]

\* newMemoryCard, for options it accepts.
newCard(flashID, formatTime, capacity, encoding) ==
  LET header     == newHeader(flashID, formatTime, capacity, encoding)
      freeBlocks == headerBlocks(header) - reservedBlocks
  IN mcChecksum([header    |-> header,
                 directory |-> <<newDirectory(1), newDirectory(0)>>,
                 blockMap  |-> <<newBlockMap(1, freeBlocks),
                                 newBlockMap(0, freeBlocks)>>,
                 nblocks   |-> freeBlocks,
                 blocks    |-> Empty])

\* newMemoryCard: <<card, error>>
newMemoryCard(flashID, formatTime, capacity, encoding) ==
  IF validateCardSize(capacity) # "nil" THEN <<NoCard, validateCardSize(capacity)>>
  ELSE IF validateEncoding(encoding) # "nil"
       THEN <<NoCard, validateEncoding(encoding)>>
  ELSE <<newCard(flashID, formatTime, capacity, encoding), "nil">>

\* The usable blocks lo .. hi-1 in order; a stretch of unset blocks is blank.
RECURSIVE BlocksMarshalRange(_, _, _)
BlocksMarshalRange(mc, lo, hi) ==
  IF lo >= hi THEN <<>>
  ELSE IF (DOMAIN mc.blocks) \cap (lo..(hi - 1)) = {}
       THEN Repeat(blankBlock, hi - lo)
  ELSE IF lo + 1 = hi THEN BlockAt(mc, lo)
  ELSE LET mid == (lo + hi) \div 2
       IN Cat(BlocksMarshalRange(mc, lo, mid), BlocksMarshalRange(mc, mid, hi))

\* MarshalBinary with the two loops over the copies exchanged.
mcMarshalBinaryMapsFirst(mc) ==
  With(mc, LAMBDA v :
  CatAll(<< headerMarshalBinary(v.header),
            blockMapMarshalBinary(v.blockMap[1]), blockMapMarshalBinary(v.blockMap[2]),
            directoryMarshalBinary(v.directory[1]), directoryMarshalBinary(v.directory[2]),
            BlocksMarshalRange(v, 0, v.nblocks) >>))

\* memoryCard.MarshalBinary: header, the directories, the block maps, the
\* blocks, in that order.
mcMarshalBinary(mc) ==
  With(mc, LAMBDA v :
  CatAll(<< headerMarshalBinary(v.header),
            directoryMarshalBinary(v.directory[1]), directoryMarshalBinary(v.directory[2]),
            blockMapMarshalBinary(v.blockMap[1]), blockMapMarshalBinary(v.blockMap[2]),
            BlocksMarshalRange(v, 0, v.nblocks) >>))

(***************************************************************************)
(* Decoding.  binary.Read fills the named fields and skips the blank ones. *)
(***************************************************************************)
\* b[off : off+n]
Sub(x, off, n) == BTake(BDrop(x, off), n)

\* binary.Read into a header, from its 8192 bytes.
headerRead(x) ==
  LET s == ToBytes(BTake(x, headerReserved2Offset))
      t == ToBytes(Sub(x, headerReserved2Offset + headerReserved2Size, 6))
  IN [Serial |-> SubSeq(s, 1, 12), FormatTime |-> SubSeq(s, 13, 20),
      CounterBias |-> SubSeq(s, 21, 24), Lang |-> SubSeq(s, 25, 28),
      Unknown |-> SubSeq(s, 29, 32), DeviceID |-> ReadU16(s, 32),
      CardSize |-> ReadU16(s, 34), Encoding |-> ReadU16(s, 36),
      UpdateCounter |-> ReadU16(t, 0),
      Checksum |-> << SubSeq(t, 3, 4), SubSeq(t, 5, 6) >>]

\* The entries lo .. hi-1 read from their (hi - lo) * 64 bytes.
RECURSIVE EntriesRead(_, _, _)
EntriesRead(x, lo, hi) ==
  IF lo >= hi THEN Empty
  ELSE IF lo + 1 = hi
       THEN LET e == ReadEntry(ToBytes(x))
            IN IF e = zeroEntry THEN Empty ELSE [j \in {lo} |-> e]
  ELSE LET mid == (lo + hi) \div 2
       IN With(x, LAMBDA v :
            EntriesRead(BTake(v, (mid - lo) * entrySize), lo, mid)
            @@ EntriesRead(BDrop(v, (mid - lo) * entrySize), mid, hi))

\* binary.Read into a directory, from its 8192 bytes.
directoryRead(x) ==
  With(x, LAMBDA v :
    LET t == ToBytes(BDrop(v, maxEntries * entrySize + directoryReserved1Size))
    IN [Entries |-> EntriesRead(BTake(v, maxEntries * entrySize), 0, maxEntries),
        UpdateCounter |-> ReadU16(t, 0),
        Checksum |-> << SubSeq(t, 3, 4), SubSeq(t, 5, 6) >>])

\* The slots lo .. hi-1 read from their 2 * (hi - lo) bytes; a run of zero
\* bytes holds no set slot.
RECURSIVE SlotsRead(_, _, _)
SlotsRead(x, lo, hi) ==
  IF lo >= hi \/ x = Run(0, 2 * (hi - lo)) THEN Empty
  ELSE IF lo + 1 = hi THEN [j \in {lo} |-> ReadU16(ToBytes(x), 0)]
  ELSE LET mid == (lo + hi) \div 2
       IN With(x, LAMBDA v :
            SlotsRead(BTake(v, (mid - lo) * 2), lo, mid)
            @@ SlotsRead(BDrop(v, (mid - lo) * 2), mid, hi))

\* binary.Read into a blockMap, from its 8192 bytes.
blockMapRead(x) ==
  With(x, LAMBDA v :
    LET s == ToBytes(BTake(v, 10))
    IN [Checksum |-> << SubSeq(s, 1, 2), SubSeq(s, 3, 4) >>,
        UpdateCounter |-> ReadU16(s, 4), FreeBlocks |-> ReadU16(s, 6),
        LastAllocatedBlock |-> ReadU16(s, 8),
        Blocks |-> SlotsRead(BDrop(v, 10), 0, blockMapSlots)])

\* The blocks lo .. hi-1 read from their (hi - lo) * blockSize bytes.
RECURSIVE BlocksRead(_, _, _)
BlocksRead(x, lo, hi) ==
  IF lo >= hi \/ x = Run(255, (hi - lo) * blockSize) THEN Empty
  ELSE IF lo + 1 = hi THEN [j \in {lo} |-> x]
  ELSE LET mid == (lo + hi) \div 2
       IN With(x, LAMBDA v :
            BlocksRead(BTake(v, (mid - lo) * blockSize), lo, mid)
            @@ BlocksRead(BDrop(v, (mid - lo) * blockSize), mid, hi))

\* memoryCard.unmarshalBinary: <<card, error>>
unmarshalBinary(r) ==
  With(r, LAMBDA b :
    LET n      == BLen(b)
        header == headerRead(b)
        nb     == headerBlocks(header) - reservedBlocks
        card   == [header    |-> header,
                   directory |-> << directoryRead(Sub(b, blockSize, blockSize)),
                                    directoryRead(Sub(b, 2 * blockSize, blockSize)) >>,
                   blockMap  |-> << blockMapRead(Sub(b, 3 * blockSize, blockSize)),
                                    blockMapRead(Sub(b, 4 * blockSize, blockSize)) >>,
                   nblocks   |-> nb,
                   blocks    |-> BlocksRead(Sub(b, reservedBlocks * blockSize,
                                                nb * blockSize), 0, nb)]
    IN IF n < blockSize THEN <<NoCard, "unable to read header">>
       ELSE IF validateCardSize(header.CardSize) # "nil"
       THEN <<NoCard, validateCardSize(header.CardSize)>>
       ELSE IF validateEncoding(header.Encoding) # "nil"
       THEN <<NoCard, validateEncoding(header.Encoding)>>
       ELSE IF n < 3 * blockSize THEN <<NoCard, "unable to read directory">>
       ELSE IF n < reservedBlocks * blockSize THEN <<NoCard, "unable to read block map">>
       ELSE IF n < headerSize(header) THEN <<NoCard, "unable to read block">>
       ELSE IF n > headerSize(header) THEN <<NoCard, "errTrailingBytes">>
       ELSE <<card, isValid(card)>>)

(***************************************************************************)
(* Reader: the File list and a File's stream.                              *)
(***************************************************************************)
\* The File built for a non-empty entry.
NewFile(e) ==
  [Name |-> filename(e), Modified |-> e.LastModified,
   Size |-> entrySize + e.FileLength * blockSize,
   GameCode |-> e.GameCode, MakerCode |-> e.MakerCode, e |-> e]

\* The Files of the entries lo .. hi-1 of a directory, in index order.
RECURSIVE FilesRange(_, _, _)
FilesRange(d, lo, hi) ==
  IF lo >= hi \/ (DOMAIN d.Entries) \cap (lo..(hi - 1)) = {} THEN <<>>
  ELSE IF lo + 1 = hi
       THEN (IF isEmpty(d.Entries[lo]) THEN <<>> ELSE <<NewFile(d.Entries[lo])>>)
  ELSE LET mid == (lo + hi) \div 2
       IN FilesRange(d, lo, mid) \o FilesRange(d, mid, hi)

\* Reader.init: the error, the decoded card and r.File.
readerInit(nr) ==
  With(unmarshalBinary(nr), LAMBDA u :
    IF u[2] # "nil" THEN [err |-> u[2], mc |-> NoCard, File |-> <<>>]
    ELSE [err |-> "nil", mc |-> u[1],
          File |-> FilesRange(ActiveDir(u[1]), 0, maxEntries)])

\* Up to n rounds of File.Open's loop from index i: the indices appended,
\* the index reached, and whether the loop goes on ("go"), has met 0xffff
\* ("done") or has indexed outside the block map ("panic").
RECURSIVE chain(_, _, _)
chain(m, i, n) ==
  IF n = 1
  THEN (IF i < 0 \/ i >= blockMapSlots THEN [i |-> i, list |-> <<>>, st |-> "panic"]
        ELSE IF SlotAt(m, i) = 65535 THEN [i |-> i, list |-> <<>>, st |-> "done"]
        ELSE [i |-> SlotAt(m, i) - reservedBlocks,
              list |-> <<SlotAt(m, i) - reservedBlocks>>, st |-> "go"])
  ELSE With(chain(m, i, n \div 2), LAMBDA a :
         IF a.st # "go" THEN a
         ELSE With(chain(m, a.i, n - (n \div 2)), LAMBDA b :
                [i |-> b.i, list |-> a.list \o b.list, st |-> b.st]))

\* File.Open: the stream, the entry's 64 bytes and then the chained blocks.
\* A chain that never meets 0xffff, or a block index outside the card's
\* blocks, ends the program.
fileOpen(card, e) ==
  With(<<card, e>>, LAMBDA p :
    LET first  == (p[2].FirstBlock - reservedBlocks) % 65536
        c      == chain(ActiveMap(p[1]), first, blockMapSlots)
        blocks == <<first>> \o c.list
    IN IF c.st # "done" \/ \E k \in 1..Len(blocks) : blocks[k] \notin 0..(p[1].nblocks - 1)
       THEN [err |-> "panic", stream |-> <<>>]
       ELSE [err |-> "nil",
             stream |-> Cat(entryMarshalBinary(p[2]),
                            CatAll([k \in 1..Len(blocks) |-> BlockAt(p[1], blocks[k])]))])

(***************************************************************************)
(* The file system over a Reader.  A name is the sequence of its bytes.    *)
(***************************************************************************)
slash == 47
dot == 46

\* x < y on Go strings: bytewise.
StrLess(x, y) ==
  \E k \in 1..(Len(y)) :
    /\ \A j \in 1..(k - 1) : j <= Len(x) /\ x[j] = y[j]
    /\ (k > Len(x) \/ (k <= Len(x) /\ x[k] < y[k]))
    /\ k - 1 <= Len(x)

\* fs.ValidPath, for names of one-byte characters: "." or slash-separated
\* elements none of which is empty, "." or "..".
ValidPath(name) ==
  \/ name = <<dot>>
  \/ LET cuts == {0, Len(name) + 1} \cup {i \in 1..Len(name) : name[i] = slash}
     IN \A i \in cuts : \A j \in cuts :
          (i < j /\ \A k \in cuts : ~(i < k /\ k < j)) =>
            LET elem == SubSeq(name, i + 1, j - 1)
            IN elem # <<>> /\ elem # <<dot>> /\ elem # <<dot, dot>>

\* split: the name without one trailing slash, as directory and element.
split(name0) ==
  LET name == IF Len(name0) > 0 /\ name0[Len(name0)] = slash
              THEN SubSeq(name0, 1, Len(name0) - 1) ELSE name0
      sl   == {k \in 1..Len(name) : name[k] = slash}
      i    == IF sl = {} THEN 0 ELSE CHOOSE k \in sl : \A j \in sl : j <= k
  IN IF i = 0 THEN << <<dot>>, name >>
     ELSE << SubSeq(name, 1, i - 1), SubSeq(name, i + 1, Len(name)) >>

\* fileEntryLess
fileEntryLess(x, y) ==
  LET xs == split(x)
      ys == split(y)
  IN StrLess(xs[1], ys[1]) \/ (xs[1] = ys[1] /\ StrLess(xs[2], ys[2]))

\* The loop of initFileList over r.File[k ..]: the list so far grows by a
\* name not yet seen; a name seen again flags its entry.
RECURSIVE fileListFrom(_, _, _)
fileListFrom(File, k, list) ==
  IF k > Len(File) THEN list
  ELSE LET name == File[k].Name
           seen == {idx \in 1..Len(list) : list[idx].name = name}
       IN IF seen # {}
          THEN fileListFrom(File, k + 1,
                 [idx \in 1..Len(list) |->
                    IF idx \in seen THEN [list[idx] EXCEPT !.isDup = TRUE]
                    ELSE list[idx]])
          ELSE fileListFrom(File, k + 1,
                 Append(list, [name |-> name, file |-> k, isDir |-> FALSE,
                               isDup |-> FALSE]))

\* sort.Slice on fewer than 12 elements is an insertion sort: element i
\* moves down while it is less than the one before it.
RECURSIVE insertDown(_, _)
insertDown(list, j) ==
  IF j > 1 /\ fileEntryLess(list[j].name, list[j - 1].name)
  THEN insertDown([list EXCEPT ![j] = list[j - 1], ![j - 1] = list[j]], j - 1)
  ELSE list

RECURSIVE insertionSort(_, _)
insertionSort(list, i) ==
  IF i > Len(list) THEN list ELSE insertionSort(insertDown(list, i), i + 1)

\* Reader.initFileList: r.fileList
initFileList(File) == insertionSort(fileListFrom(File, 1, <<>>), 2)

\* sort.Search(n, f) between i and j; indices from 0, f given by its
\* values on 0 .. n-1.
RECURSIVE Search(_, _, _)
Search(i, j, f) ==
  IF i < j
  THEN LET h == (i + j) \div 2
       IN IF ~f[h] THEN Search(h + 1, j, f) ELSE Search(i, h, f)
  ELSE i

dotFile == [name |-> <<dot, slash>>, file |-> 0, isDir |-> TRUE, isDup |-> FALSE]

noEntry == [name |-> <<>>, file |-> -1, isDir |-> FALSE, isDup |-> FALSE]

\* Reader.openLookup: the entry found, noEntry for nil.
openLookup(files, name) ==
  IF name = <<dot>> THEN dotFile
  ELSE LET dir  == split(name)[1]
           elem == split(name)[2]
           ge   == [k \in 0..(Len(files) - 1) |->
                     LET is == split(files[k + 1].name)
                     IN StrLess(dir, is[1]) \/ (is[1] = dir /\ ~StrLess(is[2], elem))]
           i    == Search(0, Len(files), ge)
       IN IF i < Len(files)
          THEN LET fname == files[i + 1].name
               IN IF \/ fname = name
                     \/ /\ Len(fname) = Len(name) + 1
                        /\ fname[Len(name) + 1] = slash
                        /\ SubSeq(fname, 1, Len(name)) = name
                  THEN files[i + 1] ELSE noEntry
          ELSE noEntry

\* Reader.openReadDir: files[i:j]
openReadDir(files, dir) ==
  LET ge == [k \in 0..(Len(files) - 1) |-> ~StrLess(split(files[k + 1].name)[1], dir)]
      gt == [k \in 0..(Len(files) - 1) |-> StrLess(dir, split(files[k + 1].name)[1])]
      i == Search(0, Len(files), ge)
      j == Search(0, Len(files), gt)
  IN SubSeq(files, i + 1, j)

\* path.Base of a name.
Base(name0) ==
  LET nz   == {k \in 1..Len(name0) : name0[k] # slash}
      last == IF nz = {} THEN 0 ELSE CHOOSE k \in nz : \A j \in nz : j <= k
      name == SubSeq(name0, 1, last)
      sl   == {k \in 1..Len(name) : name[k] = slash}
      i    == IF sl = {} THEN 0 ELSE CHOOSE k \in sl : \A j \in sl : j <= k
  IN IF name0 = <<>> THEN <<dot>>
     ELSE IF name = <<>> THEN <<slash>>
     ELSE SubSeq(name, i + 1, Len(name))

\* fileListEntry.stat: the error and the Name() of what it returns.
stat(File, e) ==
  IF e.isDup THEN [err |-> "duplicate entries in memory card", Name |-> <<>>]
  ELSE IF ~e.isDir THEN [err |-> "nil", Name |-> Base(File[e.file].Name)]
  ELSE [err |-> "nil", Name |-> split(e.name)[2]]

(***************************************************************************)
(* Title patches.  A uint16 is a number; a uint32 is the pair of its high  *)
(* and low 16 bits, or its four big-endian bytes.                          *)
(***************************************************************************)
\* a ^ b
RECURSIVE Xor(_, _)
Xor(a, b) ==
  IF a = 0 THEN b
  ELSE IF b = 0 THEN a
  ELSE ((a + b) % 2) + 2 * Xor(a \div 2, b \div 2)

\* header.serialNumbers: the first 32 bytes binary.Write gives, read as eight
\* uint32; each result as its four big-endian bytes.
serialNumbers(h) ==
  LET s       == h.Serial \o h.FormatTime \o h.CounterBias \o h.Lang \o h.Unknown
      serial  == [k \in 0..7 |-> SubSeq(s, 4 * k + 1, 4 * k + 4)]
      x(a, b) == [i \in 1..4 |-> Xor(a[i], b[i])]
  IN << x(x(serial[0], serial[2]), x(serial[4], serial[6])),
        x(x(serial[1], serial[3]), x(serial[5], serial[7])) >>

\* b[off] = v
SetByte(x, off, v) == CatAll(<< BTake(x, off), Run(v, 1), BDrop(x, off + 1) >>)

\* The encoding with its repeats written out as runs.
RECURSIVE FlatRange(_, _, _)
RECURSIVE FlatRep(_, _)
FlatRange(x, lo, hi) ==
  IF lo > hi THEN <<>>
  ELSE IF lo = hi
       THEN (IF Len(x[lo]) = 2 THEN << x[lo] >>
             ELSE FlatRep(FlatRange(x[lo][1], 1, Len(x[lo][1])), x[lo][2]))
  ELSE LET mid == (lo + hi) \div 2
       IN Cat(FlatRange(x, lo, mid), FlatRange(x, mid + 1, hi))

FlatRep(p, n) ==
  IF n = 0 THEN <<>>
  ELSE IF n = 1 THEN p
  ELSE With(FlatRep(p, n \div 2), LAMBDA h :
         Cat(Cat(h, h), IF n % 2 = 1 THEN p ELSE <<>>))

Flat(x) == With(x, LAMBDA v : FlatRange(v, 1, Len(v)))

\* patchFZero's inner loop body, once: one shift of chksum.
fzeroShift(chksum) ==
  IF chksum % 2 = 1 THEN Xor(chksum \div 2, 33800) ELSE chksum \div 2

\* patchFZero's outer loop body: chksum ^= b[i], then eight shifts.
fzeroByte(chksum, b) ==
  fzeroShift(fzeroShift(fzeroShift(fzeroShift(
  fzeroShift(fzeroShift(fzeroShift(fzeroShift(Xor(chksum, b)))))))))

\* The outer loop over n equal bytes.
RECURSIVE fzeroRun(_, _, _)
fzeroRun(chksum, b, n) ==
  IF n = 0 THEN chksum
  ELSE IF n = 1 THEN fzeroByte(chksum, b)
  ELSE With(fzeroRun(chksum, b, n \div 2), LAMBDA c : fzeroRun(c, b, n - (n \div 2)))

\* The outer loop over the runs lo .. hi of x.
RECURSIVE fzeroRange(_, _, _, _)
fzeroRange(chksum, x, lo, hi) ==
  IF lo > hi THEN chksum
  ELSE IF lo = hi THEN fzeroRun(chksum, x[lo][1], x[lo][2])
  ELSE With(fzeroRange(chksum, x, lo, (lo + hi) \div 2), LAMBDA c :
         fzeroRange(c, x, ((lo + hi) \div 2) + 1, hi))

\* patchFZero: the patched bytes and the error.
patchFZero(r, card) ==
  With(<<r, serialNumbers(card.header)>>, LAMBDA p :
    IF BLen(p[1]) < lengthFZero THEN [r |-> <<>>, err |-> "errInvalidLength"]
    ELSE LET serial1 == p[2][1]
             serial2 == p[2][2]
             b1 == SetByte(SetByte(SetByte(SetByte(SetByte(SetByte(SetByte(SetByte(p[1],
                     8294, serial1[1]), 8295, serial1[2]), 30080, serial2[1]),
                     30081, serial2[2]), 8288, serial1[3]), 8289, serial1[4]),
                     8704, serial2[3]), 8705, serial2[4])
         IN With(b1, LAMBDA b :
              With(fzeroRange(65535, Flat(Sub(b, 2, lengthFZero - 2)), 1,
                              Len(Flat(Sub(b, 2, lengthFZero - 2)))), LAMBDA chksum :
                [r |-> SetByte(SetByte(b, 0, (65535 - chksum) \div 256),
                               1, (65535 - chksum) % 256),
                 err |-> "nil"])))

offsetPSO12 == 0
offsetPSO3 == 16

\* One shift of a lookup-table entry under construction.
lutShift(chksum) ==
  LET sh == << chksum[1] \div 2, (chksum[2] \div 2) + (chksum[1] % 2) * 32768 >>
  IN IF chksum[2] % 2 = 1 THEN << Xor(sh[1], 60856), Xor(sh[2], 33568) >> ELSE sh

\* patchPSO's lookup table.
lut ==
  [i \in 0..255 |->
     lutShift(lutShift(lutShift(lutShift(
     lutShift(lutShift(lutShift(lutShift(<<0, i>>))))))))]

\* chksum = (chksum>>8)&0xffffff ^ lut[byte(chksum)^b]
psoByte(chksum, b) ==
  LET l == lut[Xor(chksum[2] % 256, b)]
  IN << Xor(chksum[1] \div 256, l[1]),
        Xor((chksum[2] \div 256) + (chksum[1] % 256) * 256, l[2]) >>

\* The checksum loop over the bytes lo .. hi of s.
RECURSIVE psoRange(_, _, _, _)
psoRange(chksum, s, lo, hi) ==
  IF lo > hi THEN chksum
  ELSE IF lo = hi THEN psoByte(chksum, s[lo])
  ELSE With(psoRange(chksum, s, lo, (lo + hi) \div 2), LAMBDA c :
         psoRange(c, s, ((lo + hi) \div 2) + 1, hi))

\* patchPSO asking only for the bytes its checksum loop reads.
patchPSOTouched(r, card, offset) ==
  With(<<r, serialNumbers(card.header)>>, LAMBDA p :
    IF BLen(p[1]) < 8548 + offset THEN [r |-> <<>>, err |-> "errInvalidLength"]
    ELSE With(CatAll(<< BTake(p[1], 8536), FromBytes(p[2][1] \o p[2][2]),
                        BDrop(p[1], 8544) >>), LAMBDA b :
           With(ToBytes(Sub(b, 8268, 8548 + offset - 8268)), LAMBDA s :
             With(psoRange(<<57019, 8419>>, s, 1, Len(s)), LAMBDA c :
               [r |-> CatAll(<< BTake(b, 8264),
                                U16(65535 - c[1]), U16(65535 - c[2]),
                                BDrop(b, 8268) >>),
                err |-> "nil"]))))

\* patchPSO: the patched bytes and the error.
patchPSO(r, card, offset) ==
  With(<<r, serialNumbers(card.header)>>, LAMBDA p :
    IF BLen(p[1]) < lengthPSO THEN [r |-> <<>>, err |-> "errInvalidLength"]
    ELSE With(CatAll(<< BTake(p[1], 8536), FromBytes(p[2][1] \o p[2][2]),
                        BDrop(p[1], 8544) >>), LAMBDA b :
           With(ToBytes(Sub(b, 8268, 8548 + offset - 8268)), LAMBDA s :
             With(psoRange(<<57019, 8419>>, s, 1, Len(s)), LAMBDA c :
               [r |-> CatAll(<< BTake(b, 8264),
                                U16(65535 - c[1]), U16(65535 - c[2]),
                                BDrop(b, 8268) >>),
                err |-> "nil"]))))

patchPSO12(r, card) == patchPSO(r, card, offsetPSO12)

patchPSO3(r, card) == patchPSO(r, card, offsetPSO3)

nameFZero == <<102, 95, 122, 101, 114, 111, 46, 100, 97, 116>>  \* "f_zero.dat"
namePSO12 == <<80, 83, 79, 95, 83, 89, 83, 84, 69, 77>>         \* "PSO_SYSTEM"
namePSO3 == <<80, 83, 79, 51, 95, 83, 89, 83, 84, 69, 77>>      \* "PSO3_SYSTEM"

\* gamePatches without its first key.
gamePatchesPSO == {namePSO12, namePSO3}

\* The names gamePatches has a function for.
gamePatches == {nameFZero, namePSO12, namePSO3}

\* patchFunc(w.buf, mc) for a name in gamePatches
patchFunc(name, r, card) ==
  CASE name = nameFZero -> patchFZero(r, card)
    [] name = namePSO12 -> patchPSO12(r, card)
    [] name = namePSO3  -> patchPSO3(r, card)

(***************************************************************************)
(* fileWriter.Close on a card and a sink's buffer: the card, the buffer    *)
(* and the error it leaves.  Validation runs in the code's order; the      *)
(* reads consume the buffer as bytes.Buffer does.                          *)
(***************************************************************************)
\* The block a Read of up to blockSize bytes of r at offset off leaves in old.
readBlock(r, off, old) ==
  With(BTake(BDrop(r, off), blockSize), LAMBDA chunk :
    Cat(chunk, BDrop(old, BLen(chunk))))

\* The loop that writes out the blocks lo .. last-1 from r: mc.blocks.
writeBlocks(card, r, lo, last) ==
  LET span == lo .. (last - 1)
      new  == [i \in span |-> readBlock(r, (i - lo) * blockSize, BlockAt(card, i))]
      keep == {i \in (DOMAIN card.blocks) \cup span :
                 (IF i \in span THEN new[i] ELSE card.blocks[i]) # blankBlock}
  IN [i \in keep |-> IF i \in span THEN new[i] ELSE card.blocks[i]]

\* The loop's block map slots with every block marked as its file's last.
linkBlocksLast(slots, lo, last) ==
  [i \in (DOMAIN slots) \cup (lo .. (last - 1)) |->
     IF i \in lo .. (last - 1) THEN 65535 ELSE slots[i]]

\* The same loop's block map slots: each block links to the next, the last
\* holds 0xffff.
linkBlocks(slots, lo, last) ==
  [i \in (DOMAIN slots) \cup (lo .. (last - 1)) |->
     IF i \in lo .. (last - 1)
     THEN (IF i + 1 < last THEN i + reservedBlocks + 1 ELSE 65535)
     ELSE slots[i]]

\* The same without the closing mc.checksum().
storeStale(card, e, r, first) ==
  LET ad    == activeDirectory(card)
      am    == activeBlockMap(card)
      lo    == (first - reservedBlocks) % 65536
      last  == (first + e.FileLength - reservedBlocks) % 65536
  IN [card EXCEPT
        !.blocks = writeBlocks(card, r, lo, last),
        !.blockMap[am] =
           [@ EXCEPT !.Blocks = linkBlocks(@, lo, last),
                     !.LastAllocatedBlock = (@ + e.FileLength) % 65536,
                     !.FreeBlocks = (@ - e.FileLength) % 65536],
        !.directory[ad].Entries =
           Put(@, count(card), [e EXCEPT !.FirstBlock = first], zeroEntry)]

\* fileWriter.Close from "Write out the blocks" on, with e.FirstBlock set
\* to first: the card it leaves.
store(card, e, r, first) ==
  LET ad    == activeDirectory(card)
      am    == activeBlockMap(card)
      lo    == (first - reservedBlocks) % 65536
      last  == (first + e.FileLength - reservedBlocks) % 65536
  IN mcChecksum(
       [card EXCEPT
          !.blocks = writeBlocks(card, r, lo, last),
          !.blockMap[am] =
             [@ EXCEPT !.Blocks = linkBlocks(@, lo, last),
                       !.LastAllocatedBlock = (@ + e.FileLength) % 65536,
                       !.FreeBlocks = (@ - e.FileLength) % 65536],
          !.directory[ad].Entries =
             Put(@, count(card), [e EXCEPT !.FirstBlock = first], zeroEntry)])

\* e.FirstBlock set to the last allocated block itself.
firstBlockLast(card) == ActiveMap(card).LastAllocatedBlock

\* e.FirstBlock = LastAllocatedBlock + 1
firstBlock(card) == (ActiveMap(card).LastAllocatedBlock + 1) % 65536

\* fileWriter.Close from "Set e.FirstBlock" on: the card it leaves.
commit(card, e, r) == store(card, e, r, firstBlock(card))

\* The scan with no name ever found.
duplicateNameNever(card, e) == FALSE

\* fileWriter.Close's scan of the active directory for e's filename.
duplicateName(card, e) ==
  \E i \in NonEmpty(ActiveDir(card)) :
     filename(ActiveDir(card).Entries[i]) = filename(e)

\* The capacity check with the comparison against FreeBlocks left out.
noFreeSpaceEntries(card, e) == count(card) = maxEntries

\* fileWriter.Close's capacity check.
noFreeSpace(card, e) ==
  count(card) = maxEntries \/ e.FileLength > ActiveMap(card).FreeBlocks

\* fileWriter.Close with the entry stored, without blocks, before the
\* length of the data is checked.
closeEntryEager(card, e, rest) ==
  IF duplicateName(card, e)
  THEN [mc |-> card, buf |-> rest, err |-> "errDuplicateName"]
  ELSE IF BLen(rest) # e.FileLength * blockSize
  THEN [mc  |-> commit(card, [e EXCEPT !.FileLength = 0], <<>>),
        buf |-> rest, err |-> "errInvalidLength"]
  ELSE IF noFreeSpace(card, e)
  THEN [mc |-> card, buf |-> rest, err |-> "errNoFreeSpace"]
  ELSE IF filename(e) \in gamePatches
  THEN With(patchFunc(filename(e), rest, card), LAMBDA patch :
         IF patch.err # "nil" THEN [mc |-> card, buf |-> <<>>, err |-> patch.err]
         ELSE [mc |-> commit(card, e, patch.r), buf |-> <<>>, err |-> "nil"])
  ELSE [mc  |-> commit(card, e, rest),
        buf |-> BDrop(rest, e.FileLength * blockSize),
        err |-> "nil"]

\* fileWriter.Close once the header e is read and rest is left in w.buf.
closeEntry(card, e, rest) ==
  IF duplicateName(card, e)
  THEN [mc |-> card, buf |-> rest, err |-> "errDuplicateName"]
  ELSE IF BLen(rest) # e.FileLength * blockSize
  THEN [mc |-> card, buf |-> rest, err |-> "errInvalidLength"]
  ELSE IF noFreeSpace(card, e)
  THEN [mc |-> card, buf |-> rest, err |-> "errNoFreeSpace"]
  ELSE IF filename(e) \in gamePatches
  THEN With(patchFunc(filename(e), rest, card), LAMBDA patch :
         IF patch.err # "nil" THEN [mc |-> card, buf |-> <<>>, err |-> patch.err]
         ELSE [mc |-> commit(card, e, patch.r), buf |-> <<>>, err |-> "nil"])
  ELSE [mc  |-> commit(card, e, rest),
        buf |-> BDrop(rest, e.FileLength * blockSize),
        err |-> "nil"]

fileWriterClose(card0, buffer0) ==
  With(<<card0, buffer0>>, LAMBDA args :
    IF BLen(args[2]) < entrySize
    THEN [mc |-> args[1], buf |-> <<>>, err |-> "unable to read header"]
    ELSE With(<<ReadEntry(ToBytes(BTake(args[2], entrySize))),
                BDrop(args[2], entrySize)>>, LAMBDA p :
           closeEntry(args[1], p[1], p[2])))

(***************************************************************************)
(* The caller: what it writes into a sink.  Names are byte strings.        *)
(***************************************************************************)
NSinks == 2
MaxWrites == 1
MaxCloses == 1
MaxFiles == 2
MaxAgain == 2

Sinks == 1..NSinks

nameX == <<120>>                                           \* "x"
nameY == <<121>>                                           \* "y"
gameCode == <<71, 65, 77, 69>>                             \* "GAME"

\* A .gci header as a caller builds it: game code, file name, block count.
gci(code, name, k) ==
  [zeroEntry EXCEPT !.GameCode = code,
                    !.Filename = name \o Zeros(32 - Len(name)),
                    !.FileLength = k]

\* k data blocks, block i (from 0) filled with the byte d + i.
RECURSIVE BlocksRange(_, _, _)
BlocksRange(d, lo, hi) ==
  IF lo > hi THEN <<>>
  ELSE IF lo = hi THEN Run((d + lo) % 256, blockSize)
  ELSE LET mid == (lo + hi) \div 2
       IN Cat(BlocksRange(d, lo, mid), BlocksRange(d, mid + 1, hi))

Blocks(d, k) == BlocksRange(d, 0, k - 1)

\* A whole file: its header, then its blocks.
FileBytes(code, name, k, d) == Cat(entryWrite(gci(code, name, k)), Blocks(d, k))

\* What the caller of the mixed workload may hand to one Write: whole files
\* (x twice, with one and with two blocks; y leaving one block free; a
\* patched title with fewer blocks than its patch needs), a header without
\* its blocks, a fragment shorter than a header, and more bytes than a
\* 59-block card takes.
Pool ==
  { FileBytes(gameCode, nameX, 1, 16),
    FileBytes(gameCode, nameX, 2, 18),
    FileBytes(gameCode, nameY, 58, 32),
    FileBytes(gameCode, namePSO12, 1, 40),
    entryWrite(gci(gameCode, nameY, 2)),
    Run(7, 10),
    Run(9, 60 * blockSize) }

\* What the caller of the title workload hands to one Write: each patched
\* title with the blocks its patch needs (four, three and three) and with one
\* block fewer, two names one byte away from a title's, a plain file, and
\* a file that leaves two blocks free.
PatchPool ==
  { FileBytes(gameCode, nameFZero, 4, 16),
    FileBytes(gameCode, namePSO12, 3, 32),
    FileBytes(gameCode, namePSO3, 3, 48),
    FileBytes(gameCode, nameFZero, 3, 64),
    FileBytes(gameCode, namePSO12, 2, 80),
    FileBytes(gameCode, namePSO3, 2, 96),
    FileBytes(gameCode, nameFZero \o <<120>>, 4, 112),
    FileBytes(gameCode, SubSeq(namePSO12, 1, 9), 3, 128),
    FileBytes(gameCode, nameX, 1, 144),
    FileBytes(gameCode, nameY, 57, 160) }

\* What the caller that closes a sink again hands to one Write: a file under
\* each of the two game codes an empty entry carries, the same names under a
\* game code, a file of no blocks, and a header that declares three blocks
\* followed by a whole one-block file.
AgainPool ==
  { FileBytes(Zeros(4), nameX, 1, 16),
    FileBytes(<<255, 255, 255, 255>>, nameY, 2, 32),
    FileBytes(gameCode, nameX, 1, 48),
    FileBytes(gameCode, nameY, 2, 64),
    entryWrite(gci(gameCode, <<116>>, 0)),
    Cat(entryWrite(gci(gameCode, <<97>>, 3)), FileBytes(gameCode, <<98>>, 1, 80)) }

\* The filling workload writes one-block files under fresh names: sink s
\* names its file after the number of files committed so far.
FillBytes(s, n) == FileBytes(gameCode, <<(s - 1) * 128 + n + 1>>, 1, n)

VARIABLES
  opts,      \* the Writer's options: flashID, formatTime, cardSize, encoding
  mc,        \* the Writer's memory card
  sinks,     \* per sink: st ("none", "open" = in w.fw, "closed"), buf,
             \* the Write and Close calls made on it, and err, what the
             \* last of them returned
  createErr, \* what the last Create returned
  mu,        \* w.mu: "free", or "held" by a call that has not returned
  ret,       \* what Writer.Close returned, "none" before it has
  out,       \* the bytes the underlying io.Writer has taken
  log,       \* history: the buffers of the sinks that committed, in order
  rd,        \* the Reader NewReader built, its error, card and File list
  load,      \* the caller's workload: "mix" or "fill"; "image" where a
             \* Reader is given an image; "new" before NewWriter
  newErr,    \* what NewWriter returned, "none" before it has
  fl,        \* r.fileList, and whether r.fileListOnce has run
  res,       \* what the last Reader.Open returned
  od,        \* the openDir of the last directory opened; got is history,
             \* the names its ReadDir calls have returned so far
  rr,        \* what the last ReadDir returned, with its count and the
             \* offset it started from
  call,      \* a function called on its own: its name, inputs and result
  pc         \* per sink, where a Close that takes its steps one by one is:
             \* "idle", "in" (holding w.mu), "checked" (validated, with the
             \* entry, the data and the first block it read), "out"

fsVars == <<fl, res, od, rr>>

vars == <<opts, mc, sinks, createErr, mu, ret, out, log, rd, load, newErr, fsVars, call, pc>>

noSink == [st |-> "none", buf |-> <<>>, writes |-> 0, closes |-> 0, err |-> "nil"]

noReader == [err |-> "none", mc |-> NoCard, File |-> <<>>]

noList == [done |-> FALSE, list |-> <<>>]

noRes == [name |-> <<>>, kind |-> "none", err |-> "nil", file |-> 0, stream |-> <<>>]

noDir == [open |-> FALSE, e |-> noEntry, files |-> <<>>, offset |-> 0, got |-> <<>>]

noRead == [count |-> 0, from |-> 0, list |-> <<>>, err |-> "none"]

noFS == fl = noList /\ res = noRes /\ od = noDir /\ rr = noRead

noCall == [fn |-> "none"]

noStep == [at |-> "idle"]

\* w.fw
fw == {s \in Sinks : sinks[s].st = "open"}

defaultFormatTime == <<0, 0, 0, 4, 210, 22, 46, 178>>

\* NewWriter's defaults: 59 blocks, ANSI, all-zeroes Flash ID.
defaultOpts ==
  [flashID |-> Zeros(serialLength), formatTime |-> defaultFormatTime,
   cardSize |-> MemoryCard59, encoding |-> EncodingANSI]

\* The filling caller asks for the CardSize(MemoryCard251) option.
Init ==
  /\ load \in {"mix", "fill"}
  /\ opts = IF load = "fill" THEN [defaultOpts EXCEPT !.cardSize = MemoryCard251]
            ELSE defaultOpts
  /\ mc = newCard(opts.flashID, opts.formatTime, opts.cardSize, opts.encoding)
  /\ sinks = [s \in Sinks |-> noSink]
  /\ createErr = "nil"
  /\ mu = "free"
  /\ ret = "none"
  /\ out = <<>>
  /\ log = <<>>
  /\ rd = noReader
  /\ newErr = "nil"
  /\ noFS
  /\ call = noCall
  /\ pc = [s \in Sinks |-> noStep]

\* The filling caller keeps one sink open at a time until the directory is
\* one entry short of full; the caller of the title workload keeps one sink
\* open at a time and stops once MaxFiles files are committed, and so does
\* the caller that closes a sink again.
MaxOpen ==
  IF load = "fill" /\ count(mc) < maxEntries - 1 THEN 1
  ELSE IF load = "patch" THEN (IF Len(log) < MaxFiles THEN 1 ELSE 0)
  ELSE IF load = "again" THEN (IF Len(log) < MaxFiles THEN 1 ELSE 0)
  ELSE NSinks

\* Lock with no regard for the holder of the mutex.
LockFree == ret = "none"

\* w.mu.Lock() returns only while no other call holds the mutex; the caller
\* uses the Writer until its Close has returned.
Lock == mu = "free" /\ ret = "none"

\* Writer.Create; the new sink takes the lowest handle not in use.
Create(s) ==
  /\ Lock
  /\ Cardinality(fw) < MaxOpen
  /\ s \notin fw /\ \A t \in Sinks \ fw : s <= t
  /\ IF count(mc) = maxEntries \/ ActiveMap(mc).FreeBlocks = 0
     THEN /\ sinks' = sinks
          /\ createErr' = "errNoFreeSpace"
     ELSE /\ sinks' = [sinks EXCEPT ![s] = [noSink EXCEPT !.st = "open"]]
          /\ createErr' = "nil"
  /\ UNCHANGED <<opts, mc, mu, ret, out, log, rd, load, newErr, fsVars, call, pc>>

\* fileWriter.maxSize
maxSize == size(mc) + entrySize - reservedBlocks * blockSize

Inputs(s) ==
  IF load = "fill" THEN {FillBytes(s, count(mc))}
  ELSE IF load = "patch" THEN PatchPool
  ELSE IF load = "again" THEN AgainPool
  ELSE Pool

\* fileWriter.Write (takes no lock)
Write(s, p) ==
  /\ mu = "free" /\ ret = "none"
  /\ sinks[s].st = "open"
  /\ sinks[s].writes < MaxWrites
  /\ IF BLen(p) + BLen(sinks[s].buf) > maxSize
     THEN sinks' = [sinks EXCEPT ![s].err = "errInvalidLength"]
     ELSE sinks' = [sinks EXCEPT ![s].buf = Cat(@, p), ![s].writes = @ + 1,
                                 ![s].err = "nil"]
  /\ UNCHANGED <<opts, mc, createErr, mu, ret, out, log, rd, load, newErr, fsVars, call, pc>>

\* fileWriter.Close
FileClose(s) ==
  /\ Lock
  /\ sinks[s].st # "none"
  /\ sinks[s].closes < (IF load = "again" THEN MaxAgain ELSE MaxCloses)
  /\ \E c \in {fileWriterClose(mc, sinks[s].buf)} :
        /\ mc' = c.mc
        /\ sinks' = [sinks EXCEPT ![s].st = "closed", ![s].buf = c.buf,
                                  ![s].closes = @ + 1, ![s].err = c.err]
        /\ log' = IF c.err = "nil" THEN Append(log, sinks[s].buf) ELSE log
  /\ UNCHANGED <<opts, createErr, mu, ret, out, rd, load, newErr, fsVars, call, pc>>

\* What the underlying io.Writer does with the image: it takes all of it,
\* it takes all but the last byte and reports no error, or it fails.
Outcomes == {"full", "short", "fail"}

\* The filling caller closes the Writer early on or once the directory is
\* about full.
MayFinish == load # "fill" \/ count(mc) <= 1 \/ count(mc) >= maxEntries - 1

\* Writer.Close.  It locks w.mu and, for a sink in w.fw, calls the sink's
\* Close, which locks w.mu: with a sink open the call waits for the mutex it
\* holds and never returns.
WriterClose ==
  /\ newErr = "nil"
  /\ Lock
  /\ MayFinish
  /\ IF fw # {}
     THEN /\ mu' = "held"
          /\ UNCHANGED <<ret, out>>
     ELSE \E b \in {mcMarshalBinary(mc)} : \E o \in Outcomes :
          /\ mu' = mu
          /\ out' = CASE o = "full"  -> Cat(out, b)
                      [] o = "short" -> Cat(out, BTake(b, BLen(b) - 1))
                      [] o = "fail"  -> out
          /\ ret' = CASE o = "full"  -> "nil"
                      [] o = "short" -> "errInvalidLength"
                      [] o = "fail"  -> "errWrite"
  /\ UNCHANGED <<opts, mc, sinks, createErr, log, rd, load, newErr, fsVars, call, pc>>

\* NewReader, on the bytes written or on the image given
NewReader ==
  /\ load = "image" \/ ret # "none"
  /\ rd = noReader
  /\ rd' = readerInit(out)
  /\ UNCHANGED <<opts, mc, sinks, createErr, mu, ret, out, log, load, newErr, fsVars, call, pc>>

Next ==
  \/ \E s \in Sinks : Create(s)
  \/ \E s \in Sinks : \E p \in Inputs(s) : Write(s, p)
  \/ \E s \in Sinks : FileClose(s)
  \/ WriterClose
  \/ NewReader

Spec == Init /\ [][Next]_vars

\* The same Writer under the title workload, as TestPatches drives it.
InitPatch ==
  /\ load = "patch"
  /\ opts = defaultOpts
  /\ mc = newCard(opts.flashID, opts.formatTime, opts.cardSize, opts.encoding)
  /\ sinks = [s \in Sinks |-> noSink]
  /\ createErr = "nil"
  /\ mu = "free"
  /\ ret = "none"
  /\ out = <<>>
  /\ log = <<>>
  /\ rd = noReader
  /\ newErr = "nil"
  /\ noFS
  /\ call = noCall
  /\ pc = [s \in Sinks |-> noStep]

NextPatch ==
  \/ \E s \in Sinks : Create(s)
  \/ \E s \in Sinks : \E p \in Inputs(s) : Write(s, p)
  \/ \E s \in Sinks : FileClose(s)

SpecPatch == InitPatch /\ [][NextPatch]_vars

\* The same Writer with a caller that closes a sink again, as copyData does.
InitAgain ==
  /\ load = "again"
  /\ opts = defaultOpts
  /\ mc = newCard(opts.flashID, opts.formatTime, opts.cardSize, opts.encoding)
  /\ sinks = [s \in Sinks |-> noSink]
  /\ createErr = "nil"
  /\ mu = "free"
  /\ ret = "none"
  /\ out = <<>>
  /\ log = <<>>
  /\ rd = noReader
  /\ newErr = "nil"
  /\ noFS
  /\ call = noCall
  /\ pc = [s \in Sinks |-> noStep]

SpecAgain == InitAgain /\ [][Next]_vars

(***************************************************************************)
(* Reading: a Reader over a given image, Reader.Open and openDir.ReadDir.  *)
(***************************************************************************)
MaxCount == 2

\* The commits of the named one-block files, in order, on a blank card.
RECURSIVE CardOf(_, _, _)
CardOf(o, names, k) ==
  IF k = 0 THEN newCard(o.flashID, o.formatTime, o.cardSize, o.encoding)
  ELSE With(CardOf(o, names, k - 1), LAMBDA card :
         fileWriterClose(card, FileBytes(gameCode, names[k], 1, 64 + k)).mc)

\* A card as another program leaves it: entry i carries the given name.
Renamed(card, i, name) ==
  With(card, LAMBDA v :
    mcChecksum([v EXCEPT !.directory[activeDirectory(v)].Entries[i].Filename =
                  name \o Zeros(32 - Len(name))]))

nameT == <<116>>                                                 \* "t"
nameZZ == <<122, 122>>                                           \* "zz"
nameXSlash == <<120, slash>>                                     \* "x/"
nameA == <<97>>                                                  \* "a"
nameAB == <<97, slash, 98, dot, 100, 97, 116>>                   \* "a/b.dat"
nameAC == <<97, slash, 99, dot, 100, 97, 116>>                   \* "a/c.dat"
nameB == <<98>>                                                  \* "b"
nameC == <<99>>                                                  \* "c"
nameDE == <<100, slash, 101>>                                    \* "d/e"

\* The images a Reader is given: a blank card; files under one directory;
\* four files out of order; a name that ends in a slash next to the same
\* name without it; a name stored twice.
Images(o) ==
  { mcMarshalBinary(CardOf(o, <<>>, 0)),
    mcMarshalBinary(CardOf(o, <<nameAB, nameAC>>, 2)),
    mcMarshalBinary(CardOf(o, <<nameC, nameA, nameB, nameDE>>, 4)),
    mcMarshalBinary(CardOf(o, <<nameXSlash, nameX, nameZZ>>, 3)),
    mcMarshalBinary(Renamed(CardOf(o, <<nameY, nameX, nameT>>, 3), 2, nameX)) }

\* A card whose header carries the given size and encoding codes.
Reheadered(card, capacity, encoding) ==
  With(card, LAMBDA v :
    mcChecksum([v EXCEPT !.header.CardSize = capacity, !.header.Encoding = encoding]))

\* The images NewReader refuses: an unsupported size code, encoding code, or
\* both; a byte after the last block, under a supported and an unsupported
\* size code; a header, directory or block map changed after its checksum
\* was taken; update counters that do not differ by one; a cut-off image.
BadImages(o) ==
  With(CardOf(o, <<>>, 0), LAMBDA blank :
  { mcMarshalBinary(Reheadered(blank, MemoryCard59 + 1, EncodingANSI)),
    mcMarshalBinary(Reheadered(blank, MemoryCard59, EncodingSJIS + 1)),
    mcMarshalBinary(Reheadered(blank, MemoryCard59 + 1, EncodingSJIS + 1)),
    Cat(mcMarshalBinary(blank), Run(0, 1)),
    mcMarshalBinary(Reheadered(blank, MemoryCard59 - 1, EncodingANSI)),
    mcMarshalBinary([blank EXCEPT !.header.DeviceID = 1]),
    mcMarshalBinary([blank EXCEPT !.directory[backup + 1].UpdateCounter = 7]),
    mcMarshalBinary([blank EXCEPT !.blockMap[master + 1].FreeBlocks = 0]),
    mcMarshalBinary(mcChecksum([blank EXCEPT !.directory[backup + 1].UpdateCounter = 3])),
    mcMarshalBinary(mcChecksum([blank EXCEPT !.blockMap[backup + 1].UpdateCounter = 1])),
    BTake(mcMarshalBinary(blank), 2 * blockSize) })

\* The names the caller opens.
Names ==
  { <<dot>>, nameA, nameAB, nameAC, nameB, nameC, nameDE, <<100>>, nameX, nameY,
    nameZZ, nameXSlash, <<slash, 120>>, <<97, slash, slash, 98>>, <<dot, dot>>,
    <<97, slash, dot, slash, 98>>, <<>>, <<113>> }

Counts == (-1)..MaxCount

InitFS ==
  /\ load = "image"
  /\ opts = defaultOpts
  /\ out \in Images(opts) \cup BadImages(opts)
  /\ mc = NoCard
  /\ sinks = [s \in Sinks |-> noSink]
  /\ createErr = "nil"
  /\ mu = "free"
  /\ ret = "none"
  /\ log = <<>>
  /\ rd = noReader
  /\ newErr = "nil"
  /\ noFS
  /\ call = noCall
  /\ pc = [s \in Sinks |-> noStep]

\* Reader.Open
Open(name) ==
  /\ rd.err = "nil"
  /\ \E files \in {IF fl.done THEN fl.list ELSE initFileList(rd.File)} :
       /\ fl' = [done |-> TRUE, list |-> files]
       /\ IF ~ValidPath(name)
          THEN /\ res' = [noRes EXCEPT !.name = name, !.kind = "err", !.err = "ErrInvalid"]
               /\ UNCHANGED <<od, rr>>
          ELSE LET e == openLookup(files, name)
               IN IF e = noEntry
                  THEN /\ res' = [noRes EXCEPT !.name = name, !.kind = "err",
                                               !.err = "ErrNotExist"]
                       /\ UNCHANGED <<od, rr>>
                  ELSE IF e.isDir
                  THEN /\ res' = [noRes EXCEPT !.name = name, !.kind = "dir"]
                       /\ od' = [open |-> TRUE, e |-> e,
                                 files |-> openReadDir(files, name),
                                 offset |-> 0, got |-> <<>>]
                       /\ rr' = noRead
                  ELSE /\ res' = [name |-> name, kind |-> "file", file |-> e.file,
                                  err |-> fileOpen(rd.mc, rd.File[e.file].e).err,
                                  stream |-> fileOpen(rd.mc, rd.File[e.file].e).stream]
                       /\ UNCHANGED <<od, rr>>
  /\ UNCHANGED <<opts, mc, sinks, createErr, mu, ret, out, log, rd, load, newErr, call, pc>>

\* ReadDir's n with the cap on a positive count left out.
readDirRest(d, cnt) == Len(d.files) - d.offset

\* openDir.ReadDir's n: the entries left, at most count of them for a
\* positive count.
readDirCount(d, cnt) ==
  IF cnt > 0 /\ Len(d.files) - d.offset > cnt THEN cnt
  ELSE Len(d.files) - d.offset

\* openDir.ReadDir
ReadDir(cnt) ==
  /\ od.open
  /\ LET n    == readDirCount(od, cnt)
         s    == [i \in 1..n |-> stat(rd.File, od.files[od.offset + i])]
         bad  == {i \in 1..n : s[i].err # "nil"}
         list == [i \in 1..n |-> s[i].Name]
     IN IF n = 0
        THEN /\ rr' = [count |-> cnt, from |-> od.offset, list |-> <<>>,
                       err |-> IF cnt <= 0 THEN "nil" ELSE "EOF"]
             /\ od' = od
        ELSE IF bad # {}
        THEN /\ rr' = [count |-> cnt, from |-> od.offset, list |-> <<>>,
                       err |-> s[CHOOSE i \in bad : \A j \in bad : i <= j].err]
             /\ od' = od
        ELSE /\ rr' = [count |-> cnt, from |-> od.offset, list |-> list,
                       err |-> "nil"]
             /\ od' = [od EXCEPT !.offset = @ + n, !.got = @ \o list]
  /\ UNCHANGED <<opts, mc, sinks, createErr, mu, ret, out, log, rd, load, newErr, fl, res, call, pc>>

NextFS ==
  \/ NewReader
  \/ \E name \in Names : Open(name)
  \/ \E cnt \in Counts : ReadDir(cnt)

SpecFS == InitFS /\ [][NextFS]_vars

(***************************************************************************)
(* Construction: NewWriter under the caller's options, then Writer.Close.  *)
(***************************************************************************)
\* Flash IDs: all zeroes, all 0xff, a rising and a falling ramp.
FlashIDs ==
  { [i \in 1..serialLength |-> 0], [i \in 1..serialLength |-> 255],
    [i \in 1..serialLength |-> 16 * i + 3], [i \in 1..serialLength |-> 255 - i] }

\* FormatTime(0), the time NewWriter reads from the clock, a later time.
FormatTimes == {Zeros(8), defaultFormatTime, <<0, 1, 2, 3, 4, 5, 6, 7>>}

CardSizes ==
  {MemoryCard59, MemoryCard123, MemoryCard251, MemoryCard507, MemoryCard1019,
   MemoryCard2043, MemoryCard59 + 1}

Encodings == {EncodingANSI, EncodingSJIS, EncodingSJIS + 1}

\* The values the options FlashID, FormatTime, CardSize and Encoding leave
\* in the Writer.
Options ==
  [flashID : FlashIDs, formatTime : FormatTimes, cardSize : CardSizes,
   encoding : Encodings]

InitNew ==
  /\ load = "new"
  /\ opts = defaultOpts
  /\ mc = NoCard
  /\ sinks = [s \in Sinks |-> noSink]
  /\ createErr = "nil"
  /\ mu = "free"
  /\ ret = "none"
  /\ out = <<>>
  /\ log = <<>>
  /\ rd = noReader
  /\ newErr = "none"
  /\ noFS
  /\ call = noCall
  /\ pc = [s \in Sinks |-> noStep]

\* NewWriter: setOption, then newMemoryCard.
NewWriter(o) ==
  /\ load = "new"
  /\ newErr = "none"
  /\ opts' = o
  /\ \E c \in {newMemoryCard(o.flashID, o.formatTime, o.cardSize, o.encoding)} :
       /\ mc' = c[1]
       /\ newErr' = c[2]
  /\ UNCHANGED <<sinks, createErr, mu, ret, out, log, rd, load, fsVars, call, pc>>

NextNew ==
  \/ \E o \in Options : NewWriter(o)
  \/ WriterClose

SpecNew == InitNew /\ [][NextNew]_vars

(***************************************************************************)
(* Properties of construction (SpecNew).                                   *)
(***************************************************************************)
Supported ==
  /\ opts.cardSize \in {MemoryCard59, MemoryCard123, MemoryCard251,
                        MemoryCard507, MemoryCard1019, MemoryCard2043}
  /\ opts.encoding \in {EncodingANSI, EncodingSJIS}

\* C10: once NewWriter has returned, for each of the six supported card-size
\* codes and both encodings it has built a card; that card passes isValid
\* at once (all five record checksums match, and both the directory pair
\* and the block map pair carry the counters 1 and 0), has count() = 0,
\* FreeBlocks = CardSize * 16 - 5 and LastAllocatedBlock = 4 in both block
\* map copies, and header update counter 0xFFFF; for size code 4 with ANSI
\* encoding it serializes to exactly 524288 bytes.
BlankImage ==
  (load = "new" /\ newErr # "none" /\ Supported) =>
     /\ newErr = "nil"
     /\ isValid(mc) = "nil"
     /\ headerIsValid(mc.header)
     /\ \A c \in {master + 1, backup + 1} :
          /\ directoryIsValid(mc.directory[c])
          /\ blockMapIsValid(mc.blockMap[c])
          /\ mc.blockMap[c].FreeBlocks = opts.cardSize * 16 - 5
          /\ mc.blockMap[c].LastAllocatedBlock = 4
     /\ mc.directory[master + 1].UpdateCounter = 1
     /\ mc.directory[backup + 1].UpdateCounter = 0
     /\ mc.blockMap[master + 1].UpdateCounter = 1
     /\ mc.blockMap[backup + 1].UpdateCounter = 0
     /\ count(mc) = 0
     /\ mc.header.UpdateCounter = 65535
     /\ (opts.cardSize = MemoryCard59 /\ opts.encoding = EncodingANSI) =>
           BLen(mcMarshalBinary(mc)) = 524288

\* A 2043 block Shift-JIS card has been built and written out in full.
BlankImageBuilt ==
  /\ load = "new" /\ newErr = "nil" /\ ret = "nil"
  /\ opts.cardSize = MemoryCard2043 /\ opts.encoding = EncodingSJIS
  /\ BLen(out) = size(mc)

(***************************************************************************)
(* Properties of writing (Spec).                                           *)
(***************************************************************************)
\* The header a committed or buffered file starts with.
Header(b) == ReadEntry(ToBytes(BTake(b, entrySize)))

\* A header with a non-empty game code, a filename that is not in the
\* title patch table and at least one block.
Plain(e) == ~isEmpty(e) /\ filename(e) \notin gamePatches /\ e.FileLength >= 1

\* C1: when the files of log, each with a non-empty game code, a filename
\* outside the title patch table and one block or more, have been committed
\* through Create, Write and Close on a fresh Writer, Writer.Close has
\* written the image and NewReader has read it back, the Reader lists
\* exactly those files in commit order, each under the name and the entry
\* of its header, and each file's stream is its 64 byte entry followed by
\* exactly the data bytes that were written, in order.
RoundTrip ==
  (/\ load \in {"mix", "fill"} /\ ret = "nil" /\ rd # noReader
   /\ \A i \in 1..Len(log) : Plain(Header(log[i]))) =>
     /\ rd.err = "nil"
     /\ Len(rd.File) = Len(log)
     /\ \A i \in 1..Len(log) :
          LET hd == Header(log[i])
              fo == fileOpen(rd.mc, rd.File[i].e)
          IN /\ rd.File[i].Name = filename(hd)
             /\ [rd.File[i].e EXCEPT !.FirstBlock = 0] = [hd EXCEPT !.FirstBlock = 0]
             /\ fo.err = "nil"
             /\ BLen(fo.stream) = entrySize + hd.FileLength * blockSize
             /\ Flat(fo.stream)
                  = Flat(Cat(entryMarshalBinary(rd.File[i].e),
                             BDrop(log[i], entrySize)))

\* A full directory of 127 files has been written and read back.
RoundTripFull ==
  load = "fill" /\ ret = "nil" /\ rd.err = "nil" /\ Len(rd.File) = maxEntries

\* Writer.Close is the one call that takes w.mu for good or sets ret.
WriterCloseStep == mu' # mu \/ ret' # ret

\* C2: a Writer.Close called while sinks are open returns; when it returns
\* without error it has committed each of those sinks and has written the
\* whole image to the io.Writer.
CloseCompletes ==
  [][(fw # {} /\ WriterCloseStep) =>
        /\ ret' # "none"
        /\ mu' = "free"
        /\ ret' = "nil" => (fw' = {} /\ BLen(out') = size(mc'))]_vars

\* Sink s's Close is the call that counts in sinks[s].closes.
Closing(s) == sinks'[s].closes = sinks[s].closes + 1

\* C3: whenever a sink's Close returns an error, the card is exactly as
\* before the call: every directory entry, every block map slot,
\* FreeBlocks, LastAllocatedBlock, every data block and all checksums.
CommitAtomic ==
  [][\A s \in Sinks : (Closing(s) /\ sinks'[s].err # "nil") => mc' = mc]_vars

\* One sink's Close has failed for want of space and another's for a name
\* that is taken, after a commit.
CommitFaults ==
  /\ count(mc) >= 1
  /\ \E s, t \in Sinks :
       /\ sinks[s].st = "closed" /\ sinks[s].err = "errNoFreeSpace"
       /\ sinks[t].st = "closed" /\ sinks[t].err = "errDuplicateName"

\* No two non-empty entries of the active directory carry the same name.
UniqueNames ==
  \A i, j \in NonEmpty(ActiveDir(mc)) :
     i # j => ActiveDir(mc).Entries[i].Filename # ActiveDir(mc).Entries[j].Filename

\* The name of the header in sink s's buffer is that of a non-empty entry.
NameStored(s) ==
  /\ BLen(sinks[s].buf) >= entrySize
  /\ \E i \in NonEmpty(ActiveDir(mc)) :
       ActiveDir(mc).Entries[i].Filename = Header(sinks[s].buf).Filename

\* C4: the Close of a sink whose header's filename is that of a non-empty
\* entry of the active directory fails with errDuplicateName, and at all
\* times no two non-empty entries of the active directory have the same
\* stored filename.
NamesUnique ==
  /\ []UniqueNames
  /\ [][\A s \in Sinks :
          (Closing(s) /\ NameStored(s)) =>
             (sinks'[s].err = "errDuplicateName" /\ mc' = mc)]_vars

\* With two files committed, a sink's Close has failed for its name.
NameRefused ==
  /\ count(mc) = 2
  /\ \E s \in Sinks : sinks[s].st = "closed" /\ sinks[s].err = "errDuplicateName"

\* The directory is full or no block is free: Create's capacity check.
CardFull == count(mc) = maxEntries \/ ActiveMap(mc).FreeBlocks = 0

\* The header in sink s's buffer finds the directory full or declares more
\* blocks than are free.
OverCapacity(s) ==
  /\ BLen(sinks[s].buf) >= entrySize
  /\ \/ count(mc) = maxEntries
     \/ Header(sinks[s].buf).FileLength > ActiveMap(mc).FreeBlocks

\* The data after the header in sink s's buffer is as long as it declares.
LengthDeclared(s) ==
  BLen(sinks[s].buf) = entrySize + Header(sinks[s].buf).FileLength * blockSize

\* count(), FreeBlocks and LastAllocatedBlock are what they were.
SameUsage ==
  /\ count(mc') = count(mc)
  /\ ActiveMap(mc').FreeBlocks = ActiveMap(mc).FreeBlocks
  /\ ActiveMap(mc').LastAllocatedBlock = ActiveMap(mc).LastAllocatedBlock

\* With the card full no Create hands out a sink, Create's only error is
\* errNoFreeSpace, and the card's usage stays.
CreateRefused ==
  CardFull =>
     /\ \A s \in Sinks : sinks'[s].st = "open" => sinks[s].st = "open"
     /\ createErr' \in {createErr, "errNoFreeSpace"}
     /\ SameUsage

\* C5 as stated: Create fails with errNoFreeSpace when the active directory
\* has 127 non-empty entries or FreeBlocks is 0; a sink's Close fails with
\* errNoFreeSpace when the directory has 127 non-empty entries or the
\* header's FileLength is greater than FreeBlocks; in every such case
\* count(), FreeBlocks and LastAllocatedBlock are unchanged.
CapacityFaultsAsStated ==
  [][/\ CreateRefused
     /\ \A s \in Sinks :
          (Closing(s) /\ OverCapacity(s)) =>
             (sinks'[s].err = "errNoFreeSpace" /\ SameUsage)]_vars

\* C5, amended: Create as stated; a sink's Close fails when the directory
\* has 127 non-empty entries or the header's FileLength is greater than
\* FreeBlocks, with errNoFreeSpace provided the header's filename is not
\* already stored and the data is as long as the header declares (those two
\* checks come first and fail with errDuplicateName and errInvalidLength);
\* in every such case count(), FreeBlocks and LastAllocatedBlock are
\* unchanged.
CapacityFaults ==
  [][/\ CreateRefused
     /\ \A s \in Sinks :
          (Closing(s) /\ OverCapacity(s)) =>
             /\ sinks'[s].err # "nil"
             /\ SameUsage
             /\ sinks'[s].err =
                  IF NameStored(s) THEN "errDuplicateName"
                  ELSE IF ~LengthDeclared(s) THEN "errInvalidLength"
                  ELSE "errNoFreeSpace"]_vars

\* With the directory full, Create has been refused and a sink opened
\* earlier has been refused at its Close.
CapacityReached ==
  /\ count(mc) = maxEntries
  /\ createErr = "errNoFreeSpace"
  /\ \E s \in Sinks : sinks[s].st = "closed" /\ sinks[s].err = "errNoFreeSpace"

(***************************************************************************)
(* Properties of reading (SpecFS).                                         *)
(***************************************************************************)
\* The Reader has decoded files of these names, in this order.
FilesNamed(names) ==
  /\ rd.err = "nil"
  /\ Len(rd.File) = Len(names)
  /\ \A i \in 1..Len(names) : rd.File[i].Name = names[i]

\* Reader.Open has returned for this name.
Opened(name) == res.kind # "none" /\ res.name = name

\* The names a full enumeration of the open directory yields.
Listing == [i \in 1..Len(od.files) |-> stat(rd.File, od.files[i]).Name]

\* C6: for a decoded image whose files are named "a/b.dat" and "a/c.dat",
\* Reader.Open("a") returns a directory, not a NotFound error, and the
\* enumeration of that directory yields exactly the two entries "b.dat"
\* and "c.dat", in that order.
DirectoryLookup ==
  (FilesNamed(<<nameAB, nameAC>>) /\ Opened(nameA)) =>
     /\ res.kind = "dir"
     /\ Listing = << <<98, dot, 100, 97, 116>>, <<99, dot, 100, 97, 116>> >>

\* The files of the Reader that carry this name.
Carrying(name) == {i \in 1..Len(rd.File) : rd.File[i].Name = name}

\* C7: when the active directory of a decoded image holds two or more
\* non-empty entries of one filename, the lazy index flags that name as
\* duplicate and every Reader.Open of that name fails with a DuplicateName
\* fault instead of returning a file stream.
DuplicateLookup ==
  (rd.err = "nil" /\ res.kind # "none" /\ Cardinality(Carrying(res.name)) >= 2) =>
     /\ fl.done
     /\ \E k \in 1..Len(fl.list) : fl.list[k].name = res.name /\ fl.list[k].isDup
     /\ res.kind = "err"
     /\ res.err = "errDuplicateName"

\* The indexed entries the name matches: by the name itself or, as a
\* directory, by the name followed by a slash.
Matching(name) ==
  {k \in 1..Len(fl.list) :
     fl.list[k].name = name \/ fl.list[k].name = name \o <<slash>>}

\* The names of the indexed files that have no slash, in index order.
Slashless ==
  SelectSeq([k \in 1..Len(fl.list) |-> fl.list[k].name],
            LAMBDA n : \A i \in 1..Len(n) : n[i] # slash)

\* C8: Reader.Open of a name that is not a valid slash-separated relative
\* path fails with InvalidPath; Open(".") succeeds and returns the root
\* directory, whose enumeration is exactly the indexed files whose name has
\* no slash, in sorted order; Open of a valid name that matches no indexed
\* entry fails with NotFound; and for every file whose name is a valid path
\* and occurs once, Open of that name returns the stream of that very file.
PathResolution ==
  (rd.err = "nil" /\ res.kind # "none") =>
     /\ ~ValidPath(res.name) => (res.kind = "err" /\ res.err = "ErrInvalid")
     /\ res.name = <<dot>> =>
          /\ res.kind = "dir"
          /\ [i \in 1..Len(od.files) |-> od.files[i].name] = Slashless
          /\ \A i, j \in 1..Len(od.files) :
               i < j => StrLess(od.files[i].name, od.files[j].name)
     /\ (ValidPath(res.name) /\ res.name # <<dot>> /\ Matching(res.name) = {}) =>
          (res.kind = "err" /\ res.err = "ErrNotExist")
     /\ \A i \in 1..Len(rd.File) :
          (/\ res.name = rd.File[i].Name
           /\ ValidPath(res.name)
           /\ Carrying(res.name) = {i}) =>
             /\ res.kind = "file"
             /\ res.file = i
             /\ res.err = "nil"
             /\ res.stream = fileOpen(rd.mc, rd.File[i].e).stream

\* The names of the entries lo+1 .. hi of the open directory.
ListingRange(lo, hi) ==
  [i \in 1..(hi - lo) |-> stat(rd.File, od.files[lo + i]).Name]

\* The entries that were left when the last ReadDir was called, and the
\* size of the batch it was asked for.
Remaining == Len(od.files) - rr.from

Batch == IF rr.count > 0 THEN Min(rr.count, Remaining) ELSE Remaining

\* C9 as stated: on an opened directory a ReadDir(n) with n > 0 returns
\* the next min(n, remaining) entries of the sorted entry list, a
\* ReadDir(n) with n <= 0 all remaining entries, so that the batches are
\* consecutive and their concatenation is the list with each entry once;
\* after exhaustion ReadDir(n > 0) returns no entries and io.EOF, and
\* ReadDir(n <= 0) an empty result with no error.
DirectoryPagingAsStated ==
  (od.open /\ rr.err # "none") =>
     /\ Remaining > 0 =>
          (rr.err = "nil" /\ rr.list = ListingRange(rr.from, rr.from + Batch))
     /\ Remaining = 0 =>
          (rr.list = <<>> /\ rr.err = IF rr.count > 0 THEN "EOF" ELSE "nil")
     /\ od.offset = rr.from + Len(rr.list)
     /\ od.got = ListingRange(0, od.offset)

\* The batch the last ReadDir was asked for holds an entry flagged
\* duplicate.
Flagged == \E i \in (rr.from + 1)..(rr.from + Batch) : od.files[i].isDup

\* C9, amended: a ReadDir whose batch holds no entry flagged duplicate
\* behaves as stated; one whose batch holds an entry flagged duplicate
\* returns no entries and the duplicate entries error and leaves the
\* position where it was; the entries returned so far are the sorted entry
\* list up to the position, each once.
DirectoryPaging ==
  (od.open /\ rr.err # "none") =>
     /\ (Remaining > 0 /\ ~Flagged) =>
          (rr.err = "nil" /\ rr.list = ListingRange(rr.from, rr.from + Batch))
     /\ (Remaining > 0 /\ Flagged) =>
          (rr.err = "duplicate entries in memory card" /\ rr.list = <<>>)
     /\ Remaining = 0 =>
          (rr.list = <<>> /\ rr.err = IF rr.count > 0 THEN "EOF" ELSE "nil")
     /\ od.offset = rr.from + Len(rr.list)
     /\ od.got = ListingRange(0, od.offset)

\* A ReadDir(2) with one entry left of three has returned that entry.
LastBatch ==
  /\ od.open /\ Len(od.files) = 3 /\ od.offset = 3
  /\ rr.count = 2 /\ rr.from = 2 /\ Len(rr.list) = 1 /\ rr.err = "nil"

(***************************************************************************)
(* C11.  Serialized length and order.                                      *)
(***************************************************************************)
\* The i-th 8192-byte record of the serialized image b, from 0.
Record(b, i) == Flat(Sub(b, i * blockSize, blockSize))

\* The records a card serializes to, in the order stated.
InOrder(card, b) ==
  /\ Record(b, 0) = Flat(headerMarshalBinary(card.header))
  /\ Record(b, 1) = Flat(directoryMarshalBinary(card.directory[master + 1]))
  /\ Record(b, 2) = Flat(directoryMarshalBinary(card.directory[backup + 1]))
  /\ Record(b, 3) = Flat(blockMapMarshalBinary(card.blockMap[master + 1]))
  /\ Record(b, 4) = Flat(blockMapMarshalBinary(card.blockMap[backup + 1]))
  /\ With(BDrop(b, reservedBlocks * blockSize), LAMBDA rest :
       \A i \in 0..(card.header.CardSize * 16 - reservedBlocks - 1) :
          Record(rest, i) = Flat(BlockAt(card, i)))

\* C11: every image of a Writer session, blank or after any commits,
\* serializes to the header, the directory master, the directory backup, the
\* block-map master, the block-map backup and then all usable blocks, in that
\* order, and the total length is Header.size() = CardSize * 2^17 bytes.
\* Examined in the states where the caller may have the Writer serialize.
SerializedLength ==
  MayFinish =>
  \A b \in {mcMarshalBinary(mc)} :
     /\ BLen(b) = size(mc)
     /\ size(mc) = mc.header.CardSize * 131072
     /\ size(mc) = (reservedBlocks + (mc.header.CardSize * 16 - reservedBlocks)) * blockSize
     /\ InOrder(mc, b)

\* Two files are committed, one of them of two blocks, and the Writer has
\* written the whole image.
SerializedCommitted ==
  /\ count(mc) = 2
  /\ ActiveMap(mc).FreeBlocks < mc.nblocks - 2
  /\ ret = "nil"
  /\ BLen(out) = size(mc)

(***************************************************************************)
(* The serial transform called on its own, as TestExtractFlashID does.     *)
(***************************************************************************)
IDs == FlashIDs

\* Seeds, as eight bytes, most significant first: zero, 2^64 - 1, the default
\* format time, and one byte set to 1, 0x80 or 0xff at each position.
Seeds ==
  { Zeros(8), [i \in 1..8 |-> 255], defaultFormatTime }
  \cup { [i \in 1..8 |-> IF i = p THEN b ELSE 0] : p \in 1..8, b \in {1, 128, 255} }

\* The state of a session that only calls functions.
InitCall ==
  /\ load = "call"
  /\ opts = defaultOpts
  /\ mc = NoCard
  /\ sinks = [s \in Sinks |-> noSink]
  /\ createErr = "nil"
  /\ mu = "free"
  /\ ret = "none"
  /\ out = <<>>
  /\ log = <<>>
  /\ rd = noReader
  /\ newErr = "none"
  /\ noFS
  /\ call = noCall
  /\ pc = [s \in Sinks |-> noStep]

session == <<opts, mc, sinks, createErr, mu, ret, out, log, rd, load, newErr, fsVars, pc>>

\* serial := computeSerial(flashID, t0)
ComputeSerial(id, seed) ==
  /\ load = "call"
  /\ call = noCall
  /\ call' = [fn |-> "computeSerial", flashID |-> id, rand |-> seed,
              serial |-> computeSerial(id, seed)]
  /\ UNCHANGED session

\* extractFlashID(serial, t0), on the serial just computed
ExtractFlashID ==
  /\ call.fn = "computeSerial"
  /\ call' = [fn |-> "extractFlashID", serial |-> call.serial, rand |-> call.rand,
              flashID |-> extractFlashID(call.serial, call.rand),
              from |-> call.flashID]
  /\ UNCHANGED session

NextSerial ==
  \/ \E id \in IDs : \E seed \in Seeds : ComputeSerial(id, seed)
  \/ ExtractFlashID

SpecSerial == InitCall /\ [][NextSerial]_vars

(***************************************************************************)
(* C12.  Serial transform round trip.                                      *)
(***************************************************************************)
\* C12: for every 12-byte identifier id and every 64-bit seed s,
\* extractFlashID(computeSerial(id, s), s) = id.
SerialRoundTrip ==
  call.fn = "extractFlashID" => call.flashID = call.from

\* A round trip under the seed 2^64 - 1 in which a byte addition wrapped.
SerialWrapped ==
  /\ call.fn = "extractFlashID"
  /\ call.rand = [i \in 1..8 |-> 255]
  /\ \E i \in 1..serialLength : call.serial[i] < call.from[i]

(***************************************************************************)
(* The digest and checksum called on their own, as TestHash does.          *)
(***************************************************************************)
MaxHashWrites == 2

test == <<116, 101, 115, 116>>                             \* "test"

\* What one Write is given: "test" whole and in pieces, spans whose words
\* sum to 0xFFFF and beyond, an odd length, nothing, and a blank block.
HashInputs ==
  { test, <<116, 101>>, <<115, 116>>, <<116>>, <<101, 115, 116>>,
    <<255, 255>>, <<0, 0>>, <<255, 254, 0, 1>>, <<1, 2, 3>>, <<>>,
    [i \in 1..blockSize |-> 255] }

Digesting == call.fn \in {"New", "Write", "Sum", "Reset"}

\* hash.New / hash.NewInverted
HashNew(inverted) ==
  /\ load = "call"
  /\ call = noCall
  /\ call' = [fn |-> "New", d |-> DigestNew(inverted), written |-> <<>>,
              writes |-> 0, sum |-> <<>>]
  /\ UNCHANGED session

\* digest.Write; written is history, the bytes taken since the last Reset.
HashWrite(p) ==
  /\ Digesting
  /\ call.writes < MaxHashWrites
  /\ call' = [call EXCEPT !.fn = "Write",
                          !.d = digestLoop(call.d, p, 1, Len(p)),
                          !.written = @ \o p,
                          !.writes = @ + 1]
  /\ UNCHANGED session

\* digest.Sum(nil)
HashSum ==
  /\ Digesting
  /\ call' = [call EXCEPT !.fn = "Sum", !.sum = DigestSum(call.d)]
  /\ UNCHANGED session

\* digest.Reset
HashReset ==
  /\ Digesting
  /\ call' = [call EXCEPT !.fn = "Reset", !.d = DigestNew(call.d.inverted),
                          !.written = <<>>]
  /\ UNCHANGED session

\* checksum(b)
Checksum(b) ==
  /\ load = "call"
  /\ call = noCall
  /\ \E c \in {checksum(FromBytes(b))} :
       call' = [fn |-> "checksum", b |-> b, normal |-> c[1], inverted |-> c[2]]
  /\ UNCHANGED session

NextHash ==
  \/ \E inverted \in BOOLEAN : HashNew(inverted)
  \/ \E p \in HashInputs : HashWrite(p)
  \/ HashSum
  \/ HashReset
  \/ \E b \in HashInputs : Checksum(b)

SpecHash == InitCall /\ [][NextHash]_vars

(***************************************************************************)
(* C13.  Checksum sentinel.                                                *)
(***************************************************************************)
\* The accumulator digest.Write's loop leaves for the span b, as two bytes.
Raw(b, inverted) == DigestSum(digestLoop(DigestNew(inverted), b, 1, Len(b)))

Clamped(w) == IF w = <<255, 255>> THEN <<0, 0>> ELSE w

\* C13: for every byte span B, checksum(B) is a function of B alone, and
\* neither the normal nor the inverted result is 0xFFFF: each is the raw
\* accumulator, with a raw 0xFFFF returned as 0x0000.
ChecksumSentinel ==
  call.fn = "checksum" =>
    /\ <<call.normal, call.inverted>> = checksum(FromBytes(call.b))
    /\ call.normal # <<255, 255>>
    /\ call.inverted # <<255, 255>>
    /\ call.normal = Clamped(Raw(call.b, FALSE))
    /\ call.inverted = Clamped(Raw(call.b, TRUE))

\* checksum was called on a span whose raw normal accumulator is 0xFFFF.
ChecksumClamped ==
  /\ call.fn = "checksum"
  /\ Raw(call.b, FALSE) = <<255, 255>>
  /\ call.normal = <<0, 0>>

(***************************************************************************)
(* C14.  Checksum digest reference.                                        *)
(***************************************************************************)
\* The sum modulo 2^16 of s[lo .. hi] read as big-endian 16-bit words that
\* start at s[1]: an odd position is a high byte, an even one a low byte.
RECURSIVE WordSum(_, _, _, _)
WordSum(s, inverted, lo, hi) ==
  IF lo > hi THEN 0
  ELSE IF lo = hi
       THEN (IF inverted THEN Xor(s[lo], 255) ELSE s[lo])
            * (IF lo % 2 = 1 THEN 256 ELSE 1)
  ELSE (WordSum(s, inverted, lo, (lo + hi) \div 2)
        + WordSum(s, inverted, (lo + hi) \div 2 + 1, hi)) % 65536

Reference(s, inverted) ==
  With(WordSum(s, inverted, 1, Len(s)), LAMBDA w : <<w \div 256, w % 256>>)

\* C14: the digest of the bytes written since the last Reset is the sum
\* modulo 2^16 of those bytes as consecutive big-endian 16-bit words (a
\* trailing odd byte a high byte), over the bytes XORed with 0xFF for the
\* inverted digest; it is the same however the bytes were split across
\* Write calls, one call included; Reset leaves the digest with Sum 0x0000;
\* "test" gives 0xE7D9 normal and 0x1825 inverted.
DigestReference ==
  Digesting =>
    /\ DigestSum(call.d) = Reference(call.written, call.d.inverted)
    /\ DigestSum(DigestWrite(DigestNew(call.d.inverted), FromBytes(call.written)))
         = Reference(call.written, call.d.inverted)
    /\ call.fn = "Sum" => call.sum = Reference(call.written, call.d.inverted)
    /\ call.fn = "Reset" => DigestSum(call.d) = <<0, 0>>
    /\ call.written = test =>
         DigestSum(call.d) = IF call.d.inverted THEN <<24, 37>> ELSE <<231, 217>>

\* "test" was written in two calls and Sum was called.
DigestSplit ==
  /\ call.fn = "Sum"
  /\ call.written = test
  /\ call.writes = 2
  /\ call.d.pos = 1
  /\ call.sum = <<231, 217>>

(***************************************************************************)
(* C15.  Decode faults.                                                    *)
(***************************************************************************)
\* NewReader has returned, on an image long enough to hold a header.
Decoded == rd.err # "none" /\ BLen(out) >= blockSize

SizeCodes == {4, 8, 16, 32, 64, 128}

ValidityFaults ==
  { "errBadHeaderChecksum", "errBadDirectoryChecksum", "errBadBlockMapChecksum",
    "errInvalidDirectoryCounters", "errInvalidBlockMapCounters" }

\* Where decoding reaches isValid() and it fails, NewReader returns its
\* fault; on any fault NewReader returns no Reader.
ValidityFault ==
  /\ \A u \in {unmarshalBinary(out)} :
       (u[1] # NoCard /\ isValid(u[1]) # "nil") =>
          rd.err = isValid(u[1]) /\ rd.err \in ValidityFaults
  /\ rd.err # "nil" => rd.mc = NoCard /\ rd.File = <<>>

\* C15 as stated: unmarshalling fails with InvalidCapacity when the header's
\* card-size code is not one of the six supported values, with
\* InvalidEncoding when the encoding code is not 0 or 1, with a
\* trailing-bytes fault when at least one byte follows the last of the
\* CardSize*16 - 5 blocks, and with a bad-checksum or invalid-counters fault
\* when isValid() fails; on any of these faults NewReader returns an error
\* and no Reader.
DecodeFaultsAsStated ==
  Decoded =>
    \A h \in {headerRead(out)} :
      /\ h.CardSize \notin SizeCodes => rd.err = "errInvalidCapacity"
      /\ h.Encoding \notin {0, 1} => rd.err = "errInvalidEncoding"
      /\ BLen(out) > h.CardSize * 16 * blockSize => rd.err = "errTrailingBytes"
      /\ ValidityFault

\* C15, amended: the faults are met in the order size code, encoding code,
\* trailing bytes, isValid(): InvalidEncoding is returned when the size code
\* is supported and the encoding code is not 0 or 1, and the trailing-bytes
\* fault when both codes are supported and a byte follows the last block.
DecodeFaults ==
  Decoded =>
    \A h \in {headerRead(out)} :
      /\ h.CardSize \notin SizeCodes => rd.err = "errInvalidCapacity"
      /\ (h.CardSize \in SizeCodes /\ h.Encoding \notin {0, 1})
            => rd.err = "errInvalidEncoding"
      /\ (/\ h.CardSize \in SizeCodes
          /\ h.Encoding \in {0, 1}
          /\ BLen(out) > h.CardSize * 16 * blockSize) => rd.err = "errTrailingBytes"
      /\ ValidityFault

\* NewReader has refused an image that passed every check but the last.
DecodeRefused ==
  /\ Decoded
  /\ rd.err = "errInvalidBlockMapCounters"
  /\ rd.mc = NoCard

(***************************************************************************)
(* C16.  Patch dispatch.                                                   *)
(***************************************************************************)
Titles == {nameFZero, namePSO12, namePSO3}

\* The data of the i-th committed file as the caller wrote it, and as the
\* card holds it in the file's chain of blocks.
Written(i) == BDrop(log[i], entrySize)

Stored(i) == BDrop(fileOpen(mc, ActiveDir(mc).Entries[i - 1]).stream, entrySize)

\* The spans [from, to) of a title's data that its patch leaves alone, and
\* where it puts the bytes of the card's two serial numbers; n is the length.
Kept(name, n) ==
  IF name = nameFZero
  THEN { <<2, 8288>>, <<8290, 8294>>, <<8296, 8704>>, <<8706, 30080>>, <<30082, n>> }
  ELSE { <<0, 8264>>, <<8268, 8536>>, <<8544, n>> }

Serials(name, s1, s2) ==
  IF name = nameFZero
  THEN { <<8294, <<s1[1], s1[2]>> >>, <<30080, <<s2[1], s2[2]>> >>,
         <<8288, <<s1[3], s1[4]>> >>, <<8704, <<s2[3], s2[4]>> >> }
  ELSE { <<8536, s1 \o s2>> }

\* C16: a committed file's data is stored in its blocks byte for byte as
\* written unless its header's filename is exactly "f_zero.dat",
\* "PSO_SYSTEM" or "PSO3_SYSTEM"; the data of a file under one of these
\* names is stored patched, at the same length: it carries the card's serial
\* numbers where the title keeps them and is as written outside the bytes
\* its patch sets (for the two PSO titles, it is what patchPSO returns).
PatchDispatch ==
  \A i \in 1..Len(log) :
    \A name \in {filename(Header(log[i]))} :
    \A wr \in {Written(i)} :
    \A st \in {Stored(i)} :
      /\ filename(ActiveDir(mc).Entries[i - 1]) = name
      /\ BLen(st) = BLen(wr)
      /\ name \notin Titles => Flat(st) = Flat(wr)
      /\ name \in Titles =>
           /\ \A k \in Kept(name, BLen(wr)) :
                 Flat(Sub(st, k[1], k[2] - k[1])) = Flat(Sub(wr, k[1], k[2] - k[1]))
           /\ \A k \in Serials(name, serialNumbers(mc.header)[1],
                                      serialNumbers(mc.header)[2]) :
                 ToBytes(Sub(st, k[1], Len(k[2]))) = k[2]
      /\ name = namePSO12 => Flat(st) = Flat(patchPSO(wr, mc, offsetPSO12).r)
      /\ name = namePSO3 => Flat(st) = Flat(patchPSO(wr, mc, offsetPSO3).r)

\* A patched title and a file named one byte off a title are both stored,
\* the first with other bytes than were written.
PatchApplied ==
  /\ Len(log) = 2
  /\ filename(Header(log[1])) = nameFZero
  /\ Flat(Stored(1)) # Flat(Written(1))
  /\ filename(Header(log[2])) = nameFZero \o <<120>>

(***************************************************************************)
(* C17.  Patch underflow.                                                  *)
(***************************************************************************)
\* The header in sink s's buffer names a patched title and the data after it
\* is shorter than the title's patch asks for.
ShortTitle(s) ==
  /\ BLen(sinks[s].buf) >= entrySize
  /\ \/ /\ filename(Header(sinks[s].buf)) = nameFZero
        /\ BLen(sinks[s].buf) - entrySize < 32768
     \/ /\ filename(Header(sinks[s].buf)) \in {namePSO12, namePSO3}
        /\ BLen(sinks[s].buf) - entrySize < 24576

\* C17 as stated: closing a sink named "f_zero.dat" whose data is shorter
\* than 0x8000 bytes, or named "PSO_SYSTEM" or "PSO3_SYSTEM" whose data is
\* shorter than 0x6000 bytes, fails with InvalidLength, and the image is
\* left unchanged.
PatchUnderflowAsStated ==
  [][\A s \in Sinks :
       (Closing(s) /\ ShortTitle(s)) =>
          (sinks'[s].err = "errInvalidLength" /\ mc' = mc)]_vars

\* C17, amended: such a Close fails and leaves the image unchanged; it fails
\* with InvalidLength unless the name is already stored (DuplicateName) or
\* the data is as long as the header declares and the directory is full or
\* the declared length exceeds FreeBlocks (NoFreeSpace): those checks come
\* before the patch.
PatchUnderflow ==
  [][\A s \in Sinks :
       (Closing(s) /\ ShortTitle(s)) =>
          /\ mc' = mc
          /\ sinks'[s].err =
               IF NameStored(s) THEN "errDuplicateName"
               ELSE IF LengthDeclared(s) /\ OverCapacity(s) THEN "errNoFreeSpace"
               ELSE "errInvalidLength"]_vars

\* After a commit, a sink's Close has failed in its title's patch, which
\* consumed the buffer.
PatchRefused ==
  /\ Len(log) = 1
  /\ \E s \in Sinks :
       /\ sinks[s].st = "closed"
       /\ sinks[s].err = "errInvalidLength"
       /\ sinks[s].writes = 1
       /\ sinks[s].buf = <<>>

(***************************************************************************)
(* C18.  Format time 0.                                                    *)
(***************************************************************************)
\* C18: computeSerial(id, 0) = id for every 12-byte Flash ID, so a Writer
\* built with FormatTime(0) stores the Flash ID unchanged in the header's
\* serial field, and with the all-zero Flash ID the two serial numbers
\* derived from the header are both 0.
FormatTimeZero ==
  /\ \A id \in FlashIDs : computeSerial(id, Zeros(8)) = id
  /\ (load = "new" /\ newErr = "nil" /\ opts.formatTime = Zeros(8)) =>
       /\ mc.header.Serial = opts.flashID
       /\ opts.flashID = Zeros(serialLength) =>
            serialNumbers(mc.header) = << Zeros(4), Zeros(4) >>

\* NewWriter has built a card under FormatTime(0) and a Flash ID that is
\* not all zeroes.
SerialKept ==
  /\ load = "new" /\ newErr = "nil"
  /\ opts.formatTime = Zeros(8)
  /\ opts.flashID = [i \in 1..serialLength |-> 16 * i + 3]
  /\ mc.header.Serial = opts.flashID

(***************************************************************************)
(* Close taken step by step: callers on different sinks, one goroutine     *)
(* each, take w.mu, validate, store and leave; Create runs between them.   *)
(***************************************************************************)
\* What the sinks hold when their callers turn to Close: one and two blocks
\* under one name, two and 58 blocks under another, less than a header.
ConcPool ==
  { FileBytes(gameCode, nameX, 1, 16),
    FileBytes(gameCode, nameX, 2, 18),
    FileBytes(gameCode, nameY, 2, 32),
    FileBytes(gameCode, nameY, 58, 48),
    Run(7, 10) }

InitConc ==
  /\ load = "conc"
  /\ opts = defaultOpts
  /\ mc = newCard(opts.flashID, opts.formatTime, opts.cardSize, opts.encoding)
  /\ sinks \in [Sinks -> {[noSink EXCEPT !.st = "open", !.buf = b, !.writes = 1] :
                            b \in ConcPool}]
  /\ createErr = "nil"
  /\ mu = "free"
  /\ ret = "none"
  /\ out = <<>>
  /\ log = <<>>
  /\ rd = noReader
  /\ newErr = "nil"
  /\ noFS
  /\ call = noCall
  /\ pc = [s \in Sinks |-> noStep]

\* fileWriter.Close's checks once the header e is read and rest is left in
\* w.buf, and the patch: the error, the data to store and what w.buf keeps.
checkEntry(card, e, rest) ==
  IF duplicateName(card, e) THEN [err |-> "errDuplicateName", r |-> <<>>, buf |-> rest]
  ELSE IF BLen(rest) # e.FileLength * blockSize
  THEN [err |-> "errInvalidLength", r |-> <<>>, buf |-> rest]
  ELSE IF noFreeSpace(card, e) THEN [err |-> "errNoFreeSpace", r |-> <<>>, buf |-> rest]
  ELSE IF filename(e) \in gamePatches
  THEN With(patchFunc(filename(e), rest, card), LAMBDA patch :
         [err |-> patch.err, r |-> patch.r, buf |-> <<>>])
  ELSE [err |-> "nil", r |-> rest, buf |-> BDrop(rest, e.FileLength * blockSize)]

\* w.w.mu.Lock()
CloseEnter(s) ==
  /\ sinks[s].st = "open"
  /\ pc[s].at = "idle"
  /\ Lock
  /\ mu' = "held"
  /\ pc' = [pc EXCEPT ![s] = [at |-> "in"]]
  /\ UNCHANGED <<opts, mc, sinks, createErr, ret, out, log, rd, load, newErr, fsVars, call>>

\* From binary.Read to "Set e.FirstBlock": the reads of the card.
CloseCheck(s) ==
  /\ pc[s].at = "in"
  /\ IF BLen(sinks[s].buf) < entrySize
     THEN pc' = [pc EXCEPT ![s] = [at |-> "out", err |-> "unable to read header",
                                   buf |-> <<>>]]
     ELSE \E e \in {Header(sinks[s].buf)} :
          \E c \in {checkEntry(mc, e, BDrop(sinks[s].buf, entrySize))} :
            pc' = [pc EXCEPT ![s] =
                     IF c.err # "nil" THEN [at |-> "out", err |-> c.err, buf |-> c.buf]
                     ELSE [at |-> "checked", err |-> "nil", buf |-> c.buf, e |-> e,
                           r |-> c.r, first |-> firstBlock(mc)]]
  /\ UNCHANGED <<opts, mc, sinks, createErr, mu, ret, out, log, rd, load, newErr, fsVars, call>>

\* From "Write out the blocks" to mc.checksum(): the writes to the card.
CloseStore(s) ==
  /\ pc[s].at = "checked"
  /\ mc' = store(mc, pc[s].e, pc[s].r, pc[s].first)
  /\ log' = Append(log, sinks[s].buf)
  /\ pc' = [pc EXCEPT ![s] = [at |-> "out", err |-> "nil", buf |-> pc[s].buf]]
  /\ UNCHANGED <<opts, sinks, createErr, mu, ret, out, rd, load, newErr, fsVars, call>>

\* The deferred w.w.mu.Unlock() and the return; the sink has left w.fw.
CloseLeave(s) ==
  /\ pc[s].at = "out"
  /\ mu' = "free"
  /\ sinks' = [sinks EXCEPT ![s].st = "closed", ![s].buf = pc[s].buf,
                            ![s].closes = @ + 1, ![s].err = pc[s].err]
  /\ pc' = [pc EXCEPT ![s] = noStep]
  /\ UNCHANGED <<opts, mc, createErr, ret, out, log, rd, load, newErr, fsVars, call>>

NextConc ==
  \/ \E s \in Sinks : Create(s)
  \/ \E s \in Sinks : CloseEnter(s)
  \/ \E s \in Sinks : CloseCheck(s)
  \/ \E s \in Sinks : CloseStore(s)
  \/ \E s \in Sinks : CloseLeave(s)

SpecConc == InitConc /\ [][NextConc]_vars

(***************************************************************************)
(* C19.  Mutual exclusion of mutating operations.                          *)
(***************************************************************************)
\* The card the first k commits of log leave when made one after another.
RECURSIVE Replay(_)
Replay(k) ==
  IF k = 0 THEN newCard(opts.flashID, opts.formatTime, opts.cardSize, opts.encoding)
  ELSE fileWriterClose(Replay(k - 1), log[k]).mc

\* The raw block indices of the i-th entry of the active directory.
Range(i) ==
  LET e == ActiveDir(mc).Entries[i]
  IN e.FirstBlock .. (e.FirstBlock + e.FileLength - 1)

Committed(k) == Header(log[k]).FileLength

RECURSIVE CommittedBlocks(_)
CommittedBlocks(k) == IF k = 0 THEN 0 ELSE Committed(k) + CommittedBlocks(k - 1)

\* C19: under every interleaving of Create calls and of Close calls on
\* different sinks, at most one call is inside the Writer; the commits take
\* effect one at a time, as if made sequentially in the order of log; no two
\* committed files share a block or a directory index; and FreeBlocks and
\* LastAllocatedBlock account for the sum of all successful commits.
MutualExclusion ==
  /\ Cardinality({s \in Sinks : pc[s].at # "idle"}) <= 1
  /\ mc = Replay(Len(log))
  /\ count(mc) = Len(log)
  /\ \A i, j \in NonEmpty(ActiveDir(mc)) : i # j => Range(i) \cap Range(j) = {}
  /\ ActiveMap(mc).FreeBlocks = mc.nblocks - CommittedBlocks(Len(log))
  /\ ActiveMap(mc).LastAllocatedBlock = reservedBlocks - 1 + CommittedBlocks(Len(log))

\* Two Closes on different sinks have both committed.
BothCommitted ==
  /\ Len(log) = 2
  /\ \A s \in Sinks : sinks[s].st = "closed" /\ sinks[s].err = "nil"

(***************************************************************************)
(* C20.  Bump allocation.                                                  *)
(***************************************************************************)
\* The step commits the file it appends to log: with L the last allocated
\* block before it and k the blocks the file declares.
Bump ==
  LET L   == ActiveMap(mc).LastAllocatedBlock
      buf == log'[Len(log')]
      k   == Header(buf).FileLength
      am  == activeBlockMap(mc)
      off == reservedBlocks
  IN k >= 1 =>
       /\ activeBlockMap(mc') = am
       /\ EntryAt(ActiveDir(mc'), count(mc)).FirstBlock = L + 1
       /\ \A j \in 1..k :
            Flat(BlockAt(mc', L + j - off)) =
              Flat(Sub(buf, entrySize + (j - 1) * blockSize, blockSize))
       /\ \A j \in 1..(k - 1) : SlotAt(ActiveMap(mc'), L + j - off) = L + j + 1
       /\ SlotAt(ActiveMap(mc'), L + k - off) = 65535
       /\ ActiveMap(mc').LastAllocatedBlock = L + k
       /\ ActiveMap(mc').FreeBlocks = ActiveMap(mc).FreeBlocks - k
       /\ \A i \in 0..(mc.nblocks - 1) :
            /\ i + off <= L => BlockAt(mc', i) = BlockAt(mc, i)
            /\ i \notin (L + 1 - off)..(L + k - off) =>
                 SlotAt(ActiveMap(mc'), i) = SlotAt(ActiveMap(mc), i)
       /\ mc'.blockMap[3 - am].Blocks = mc.blockMap[3 - am].Blocks

\* C20: a successful commit of an entry declaring k >= 1 blocks, with
\* LastAllocatedBlock = L before it, sets the entry's FirstBlock to L+1,
\* copies the data in order into usable blocks L+1-5 .. L+k-5, sets block map
\* slot L+j-5 to L+j+1 for 1 <= j < k and slot L+k-5 to 0xFFFF, sets
\* LastAllocatedBlock to L+k and lowers FreeBlocks by k; no block at or below
\* raw index L and no block map slot outside that range is modified.
BumpAllocation == [][log' # log => Bump]_vars

\* A file of two blocks is committed behind a file of one block.
BumpedTwice ==
  /\ Len(log) = 2
  /\ Header(log[1]).FileLength = 1
  /\ Header(log[2]).FileLength = 2
  /\ EntryAt(ActiveDir(mc), 1).FirstBlock = reservedBlocks + 1
  /\ ActiveMap(mc).LastAllocatedBlock = reservedBlocks + 2

(***************************************************************************)
(* C21.  Strict append.                                                    *)
(***************************************************************************)
\* The step's Close stores the header it appends to log at index count().
Appended ==
  LET n == count(mc)
      e == Header(log'[Len(log')])
  IN /\ EntryAt(ActiveDir(mc'), n) = [e EXCEPT !.FirstBlock = firstBlock(mc)]
     /\ count(mc') = n + 1
     /\ \A i \in 0..(maxEntries - 1) :
          EntryAt(ActiveDir(mc), i) # zeroEntry =>
            EntryAt(ActiveDir(mc'), i) = EntryAt(ActiveDir(mc), i)
     /\ NonEmpty(ActiveDir(mc')) = 0..n

\* C21: every successful sink Close stores its entry at the active directory
\* index equal to count() before the call, increases count() by exactly one
\* and leaves every previously committed entry unchanged, so that the
\* non-empty entries occupy indices 0 .. count()-1 in commit order and no
\* committed entry is ever overwritten.
StrictAppend == [][log' # log => Appended]_vars

(***************************************************************************)
(* C22.  Image validity.                                                   *)
(***************************************************************************)
\* The two update counters of a master/backup pair differ by exactly one.
OneApart(pair) ==
  LET d == pair[master + 1].UpdateCounter - pair[backup + 1].UpdateCounter
  IN d = 1 \/ d = -1

\* C22: after newMemoryCard and after every sink Close, successful or failed,
\* isValid() succeeds: the stored checksums of the header, of both directory
\* copies and of both block map copies equal the values recomputed over the
\* current records, and each master/backup counter pair differs by exactly
\* one; every image Writer.Close has written is accepted by NewReader.
ImageValid ==
  /\ isValid(mc) = "nil"
  /\ headerChecksum(mc.header) = mc.header
  /\ \A c \in 1..copies :
       /\ directoryChecksum(mc.directory[c]) = mc.directory[c]
       /\ blockMapChecksum(mc.blockMap[c]) = mc.blockMap[c]
  /\ OneApart(mc.directory) /\ OneApart(mc.blockMap)
  /\ (ret = "nil" /\ rd # noReader) => rd.err = "nil" /\ rd.mc = mc

\* A Close has committed, a Close has failed, and the image written by
\* Writer.Close is read back.
ValidReadBack ==
  /\ Len(log) >= 1
  /\ \E s \in Sinks : sinks[s].closes >= 1 /\ sinks[s].err # "nil"
  /\ ret = "nil"
  /\ rd.err = "nil"

(***************************************************************************)
(* The active copies and isValid on cards of another program: any pair of  *)
(* update counters, the checksums taken after or before they were set.     *)
(***************************************************************************)
\* Update counters: the lowest and the highest of 16 bits.
Counters == {0, 1, 2, 65534, 65535}

\* A blank card whose directory copies carry the update counters d and whose
\* block map copies carry the update counters b.
Recounted(d, b) ==
  With(newCard(defaultOpts.flashID, defaultOpts.formatTime, defaultOpts.cardSize,
               defaultOpts.encoding), LAMBDA blank :
    [blank EXCEPT !.directory[master + 1].UpdateCounter = d[1],
                  !.directory[backup + 1].UpdateCounter = d[2],
                  !.blockMap[master + 1].UpdateCounter = b[1],
                  !.blockMap[backup + 1].UpdateCounter = b[2]])

Cards ==
  {Recounted(d, b) : d \in Counters \X Counters, b \in Counters \X Counters}
    \cup {mcChecksum(Recounted(d, b)) : d \in Counters \X Counters,
                                        b \in Counters \X Counters}

\* mc.activeDirectory()
ActiveDirectory(card) ==
  /\ call = noCall
  /\ call' = [fn |-> "activeDirectory", card |-> card, ret |-> activeDirectory(card)]
  /\ UNCHANGED session

\* mc.activeBlockMap()
ActiveBlockMap(card) ==
  /\ call = noCall
  /\ call' = [fn |-> "activeBlockMap", card |-> card, ret |-> activeBlockMap(card)]
  /\ UNCHANGED session

\* mc.isValid()
IsValid(card) ==
  /\ call = noCall
  /\ call' = [fn |-> "isValid", card |-> card, ret |-> isValid(card)]
  /\ UNCHANGED session

NextCounters ==
  \/ \E card \in Cards : ActiveDirectory(card)
  \/ \E card \in Cards : ActiveBlockMap(card)
  \/ \E card \in Cards : IsValid(card)

SpecCounters == InitCall /\ [][NextCounters]_vars

(***************************************************************************)
(* C23.  Active-copy selection.                                            *)
(***************************************************************************)
\* Master counter minus backup counter, computed without wraparound.
Delta(pair) == pair[master + 1].UpdateCounter - pair[backup + 1].UpdateCounter

DeltaOne(card) ==
  /\ Delta(card.directory) \in {1, -1}
  /\ Delta(card.blockMap) \in {1, -1}

CounterFaults == {"errInvalidDirectoryCounters", "errInvalidBlockMapCounters"}

\* The copy the call returned, of the given pair.
Returned(pair) == pair[call.ret].UpdateCounter
Other(pair) == pair[3 - call.ret].UpdateCounter

\* The backup index only when the backup's counter is strictly greater, and
\* after an isValid() that succeeded the copy whose counter is one greater.
ActiveSelected ==
  /\ call.fn = "activeDirectory" =>
       /\ call.ret = backup + 1 <=> Delta(call.card.directory) < 0
       /\ call.ret = master + 1 <=> Delta(call.card.directory) >= 0
       /\ isValid(call.card) = "nil" =>
            Returned(call.card.directory) = Other(call.card.directory) + 1
  /\ call.fn = "activeBlockMap" =>
       /\ call.ret = backup + 1 <=> Delta(call.card.blockMap) < 0
       /\ call.ret = master + 1 <=> Delta(call.card.blockMap) >= 0
       /\ isValid(call.card) = "nil" =>
            Returned(call.card.blockMap) = Other(call.card.blockMap) + 1

\* C23 as stated: the active copy is the backup only when its counter is
\* strictly greater; isValid() fails with an invalid-counters fault unless
\* master counter minus backup counter is exactly +1 or -1; in every image
\* that passes isValid() the active copy has the counter one greater.
ActiveCopyAsStated ==
  /\ ActiveSelected
  /\ call.fn = "isValid" /\ ~DeltaOne(call.card) => call.ret \in CounterFaults

\* The checksums of the header and of the four copies are the recomputed ones.
Summed(card) == mcChecksum(card) = card

\* C23, amended: isValid() fails unless both differences are +1 or -1, and
\* with an invalid-counters fault when the checksums, which it checks
\* before the counters, are good.
ActiveCopy ==
  /\ ActiveSelected
  /\ call.fn = "isValid" /\ ~DeltaOne(call.card) =>
       /\ call.ret # "nil"
       /\ Summed(call.card) => call.ret \in CounterFaults

\* isValid() has passed a card whose backup copies are the active ones, and
\* the backup directory is returned as the active one.
BackupActive ==
  /\ call.fn = "activeDirectory"
  /\ call.ret = backup + 1
  /\ isValid(call.card) = "nil"
  /\ Delta(call.card.blockMap) = -1

(***************************************************************************)
(* C24.  Frame of a Writer session.                                        *)
(***************************************************************************)
\* The card NewWriter created.
Created == newCard(opts.flashID, opts.formatTime, opts.cardSize, opts.encoding)

\* C24: no Create, Write, sink Close or Writer.Close changes an update
\* counter or the header's card size, encoding, serial or format time; the
\* active directory and the active block map remain the master copies; the
\* backup directory's entries and the backup block map's FreeBlocks,
\* LastAllocatedBlock and slots stay as created.
SessionFrame ==
  \A created \in {Created} :
    /\ mc.header.UpdateCounter = created.header.UpdateCounter
    /\ mc.header.CardSize = created.header.CardSize
    /\ mc.header.Encoding = created.header.Encoding
    /\ mc.header.Serial = created.header.Serial
    /\ mc.header.FormatTime = created.header.FormatTime
    /\ \A c \in 1..copies :
         /\ mc.directory[c].UpdateCounter = created.directory[c].UpdateCounter
         /\ mc.blockMap[c].UpdateCounter = created.blockMap[c].UpdateCounter
    /\ activeDirectory(mc) = master + 1
    /\ activeBlockMap(mc) = master + 1
    /\ mc.directory[backup + 1].Entries = created.directory[backup + 1].Entries
    /\ mc.blockMap[backup + 1].FreeBlocks = created.blockMap[backup + 1].FreeBlocks
    /\ mc.blockMap[backup + 1].LastAllocatedBlock =
         created.blockMap[backup + 1].LastAllocatedBlock
    /\ mc.blockMap[backup + 1].Blocks = created.blockMap[backup + 1].Blocks

\* Two files are committed, a Close has failed and Writer.Close has written
\* the image.
SessionDone ==
  /\ Len(log) = 2
  /\ \E s \in Sinks : sinks[s].closes = 2 /\ sinks[s].err # "nil"
  /\ ret = "nil"
  /\ mc.blockMap[master + 1].Blocks # Empty

(***************************************************************************)
(* C25.  Block conservation.                                               *)
(***************************************************************************)
\* The sum of FileLength over the entries of d at the indices of S.
RECURSIVE Listed(_, _)
Listed(d, S) ==
  IF S = {} THEN 0
  ELSE LET i == CHOOSE j \in S : TRUE
       IN d.Entries[i].FileLength + Listed(d, S \ {i})

\* C25: after any sequence of Create, Write and Close on a Writer, with any
\* header contents (a game code of all 0x00 or all 0xFF included), FreeBlocks
\* plus the sum of FileLength over the non-empty entries of the active
\* directory equals CardSize*16 - 5, and LastAllocatedBlock equals 4 plus
\* that sum.
BlockConservation ==
  \A sum \in {Listed(ActiveDir(mc), NonEmpty(ActiveDir(mc)))} :
    /\ ActiveMap(mc).FreeBlocks + sum = mc.header.CardSize * 16 - 5
    /\ ActiveMap(mc).LastAllocatedBlock = 4 + sum

(***************************************************************************)
(* C26.  A sink commits at most once.                                      *)
(***************************************************************************)
\* C26: after a sink's Close has returned once, with success or with an
\* error, every later Close on the same sink returns an error and leaves the
\* image unchanged; a sink whose first Close failed with errDuplicateName or
\* errInvalidLength never commits an entry decoded from its remaining bytes.
CommitsOnce ==
  [][\A s \in Sinks :
       (sinks[s].closes >= 1 /\ sinks'[s].closes = sinks[s].closes + 1) =>
         (sinks'[s].err # "nil" /\ mc' = mc /\ log' = log)]_vars

(***************************************************************************)
(* C27.  Committed chains are well-formed.                                 *)
(***************************************************************************)
\* File.Open's walk for the k-th File of the Reader: the usable blocks it
\* lists and how its loop ends.
Walk(k) ==
  LET first == (rd.File[k].e.FirstBlock - reservedBlocks) % 65536
      c     == chain(ActiveMap(rd.mc), first, blockMapSlots)
  IN [blocks |-> <<first>> \o c.list, st |-> c.st]

Visited(k) == {Walk(k).blocks[j] : j \in 1..Len(Walk(k).blocks)}

\* C27: for every non-empty entry a Writer has committed, an entry of
\* FileLength 0 included, File.Open's chain walk on the image written starts
\* at FirstBlock - 5, indexes only usable blocks and block map slots in
\* 0 .. CardSize*16 - 6, visits exactly FileLength blocks, none of them
\* another entry's, and stops at 0xFFFF, so that the stream is as long as
\* the File's Size, 64 + FileLength*8192.
ChainsWellFormed ==
  (ret = "nil" /\ rd.err = "nil") =>
    \A k \in 1..Len(rd.File) :
      /\ Walk(k).st = "done"
      /\ Visited(k) \subseteq 0..(rd.mc.header.CardSize * 16 - 6)
      /\ Len(Walk(k).blocks) = rd.File[k].e.FileLength
      /\ \A j \in 1..Len(rd.File) : j # k => Visited(j) \cap Visited(k) = {}
      /\ fileOpen(rd.mc, rd.File[k].e).err = "nil"
      /\ BLen(fileOpen(rd.mc, rd.File[k].e).stream) = rd.File[k].Size
      /\ rd.File[k].Size = entrySize + rd.File[k].e.FileLength * blockSize

(***************************************************************************)
(* Reading images whose block map another program has linked.              *)
(***************************************************************************)
\* A card whose active block map holds v in slot i, checksums recomputed.
Relinked(card, i, v) ==
  With(card, LAMBDA c :
    mcChecksum([c EXCEPT !.blockMap[activeBlockMap(c)].Blocks = Put(@, i, v, 0)]))

\* Two one-block files, "a" in usable block 0 and "c" in usable block 1:
\* as committed; "c" linked back to the block of "a"; "a" linked to its own
\* block; "a" and "c" linked to each other; "a" linked to raw block 0; "a"
\* linked past the last block of the card.
LinkImages(o) ==
  With(CardOf(o, <<nameA, nameC>>, 2), LAMBDA card :
    { mcMarshalBinary(card),
      mcMarshalBinary(Relinked(card, 1, reservedBlocks)),
      mcMarshalBinary(Relinked(card, 0, reservedBlocks)),
      mcMarshalBinary(Relinked(Relinked(card, 0, reservedBlocks + 1), 1, reservedBlocks)),
      mcMarshalBinary(Relinked(card, 0, 0)),
      mcMarshalBinary(Relinked(card, 0, reservedBlocks + card.nblocks)) })

InitLinks ==
  /\ load = "image"
  /\ opts = defaultOpts
  /\ out \in LinkImages(opts)
  /\ mc = NoCard
  /\ sinks = [s \in Sinks |-> noSink]
  /\ createErr = "nil"
  /\ mu = "free"
  /\ ret = "none"
  /\ log = <<>>
  /\ rd = noReader
  /\ newErr = "nil"
  /\ noFS
  /\ call = noCall
  /\ pc = [s \in Sinks |-> noStep]

SpecLinks == InitLinks /\ [][NextFS]_vars

(***************************************************************************)
(* C28.  File.Open terminates on every accepted image.                     *)
(***************************************************************************)
\* C28: for every image NewReader accepts and every File it lists, File.Open
\* returns after following finitely many block map links, whatever the block
\* map holds: its loop meets 0xFFFF, and the Open of the File's name has
\* returned its stream.
OpenReturns ==
  /\ rd.err = "nil" => \A k \in 1..Len(rd.File) : Walk(k).st = "done"
  /\ res.kind = "file" => res.err = "nil"

====
